---- MODULE Spec2Model ----
(***************************************************************************)
(* A model of the Ross Cameron day-trading repository.                     *)
(*                                                                         *)
(*   SpecSim   the bar-by-bar simulation loop BacktestEngine.run_backtest  *)
(*             (RossCameron-Backtest.py) with the shared exit, sizing and  *)
(*             pricing functions of RossCameron-Strategy.py.               *)
(*   SpecLive  the live algorithm (RossCameron-Algo.py): the monitoring    *)
(*             loop, the TradingAlgo callbacks and the broker's order      *)
(*             book, for one symbol.                                       *)
(*   SpecFn    the stateless functions of RossCameron-Strategy.py and      *)
(*             Breakout-Strategy.py applied once to an input drawn from    *)
(*             bounded sets.                                               *)
(*                                                                         *)
(* Prices are whole cents.  Money is kept exact: an amount is a record     *)
(* [mills, sec] that stands for  mills + sec * SEC_FEE_PER_DOLLAR  mills   *)
(* (1/1000 dollar), where sec sums the sell-leg trade values (in mills)    *)
(* on which the proportional SEC fee is charged.                           *)
(***************************************************************************)
EXTENDS Integers, Sequences, FiniteSets, TLC

(***************************************************************************)
(* Bounds of the model.                                                    *)
(***************************************************************************)
\* Number of 10-second bars the simulation loop processes after the warm-up.
MaxBars == 3
\* Calendar days the bar timestamps range over.
MaxDay == 2

(***************************************************************************)
(* StrategyConfig (RossCameron-Strategy.py).                               *)
(***************************************************************************)
PREMARKET_START_HOUR == 5
PREMARKET_START_MINUTE == 0
MARKET_OPEN_HOUR == 9
MARKET_OPEN_MINUTE == 30
MARKET_CLOSE_HOUR == 15
MARKET_CLOSE_MINUTE == 50
END_OF_DAY_HOUR == 15
END_OF_DAY_MINUTE == 50
MIN_BARS_FOR_PATTERN == 10
MACD_SLOW == 26
VWAP_LOOKBACK_BARS == 390
\* TRADE_SIZE_DOLLARS = 100.0, in cents.
TRADE_SIZE_CENTS == 10000
\* COMMISSION_PER_SHARE = 0.005 dollars, in mills (1/1000 dollar).
COMMISSION_PER_SHARE_MILLS == 5
\* COMMISSION_MINIMUM = 1.00 dollars, in mills.
COMMISSION_MINIMUM_MILLS == 1000
\* SEC_FEE_PER_DOLLAR = 0.0000278 = SEC_FEE_NUM / SEC_FEE_DEN.
SEC_FEE_NUM == 278
SEC_FEE_DEN == 10000000
\* PROFIT_TARGET_PCT = 0.2: the target is entry * 120 / 100.
PROFIT_TARGET_PCT_X100 == 20
\* ENTRY_SPREAD_PCT = 0.002: the entry is price * 1002 / 1000.
ENTRY_SPREAD_PER_MILLE == 2
MACD_FAST == 12
MACD_SIGNAL == 9
PATTERN_LOOKBACK_BARS == 30
\* MIN_SURGE_PCT = 2.0 percent.
MIN_SURGE_PCT == 2
SURGE_LOOKBACK_MIN == 5
SURGE_LOOKBACK_MAX == 20
\* MIN_PULLBACK_PCT = 0.3 percent, in tenths of a percent.
MIN_PULLBACK_PCT_X10 == 3
\* MAX_PULLBACK_PCT = 5.0 percent.
MAX_PULLBACK_PCT == 5
RECENT_HIGH_LOOKBACK == 15
\* MIN_RELATIVE_VOLUME = 1.5, in tenths.
MIN_RELATIVE_VOLUME_X10 == 15
\* VOLUME_SPIKE_THRESHOLD = 2.0.
VOLUME_SPIKE_THRESHOLD == 2
\* VOLUME_WICK_RATIO = 1.5, in tenths.
VOLUME_WICK_RATIO_X10 == 15
MAX_RED_CANDLES_IN_PULLBACK == 4
VOLUME_LOOKBACK_BARS == 10
\* StrategyConfig of Breakout-Strategy.py where it differs:
\* PROFIT_TARGET_PCT = 0.25: the target is entry * 125 / 100.
Breakout_PROFIT_TARGET_PCT_X100 == 25
CONSOLIDATION_LOOKBACK == 15
MIN_CONSOLIDATION_BARS == 5
\* MAX_CONSOLIDATION_RANGE_PCT = 3.0 percent.
MAX_CONSOLIDATION_RANGE_PCT == 3
\* MIN_BREAKOUT_PCT = 1.5 percent, in tenths of a percent.
MIN_BREAKOUT_PCT_X10 == 15
BREAKOUT_MOMENTUM_BARS == 3
\* MIN_RELATIVE_VOLUME = 2.0 and BREAKOUT_VOLUME_SPIKE = 2.5, in tenths.
Breakout_MIN_RELATIVE_VOLUME_X10 == 20
BREAKOUT_VOLUME_SPIKE_X10 == 25
\* BacktestEngine(initial_capital=500.0), in mills.
initial_capital == 500000
\* lookback_bars = 360 in run_backtest: the warm-up length.
lookback_bars == 360

(***************************************************************************)
(* Input domains: bar timestamps and bar prices (cents).                   *)
(***************************************************************************)
Days == 1..MaxDay

\* Times of day <<hour, minute, second>> that bars carry: before pre-market,
\* pre-market, regular hours, the two 10-second bars of the 15:50 cutoff
\* minute, after hours.
TimePoints ==
    { <<4, 59, 50>>, <<9, 29, 50>>, <<9, 30, 0>>, <<15, 50, 0>>, <<15, 50, 10>>,
      <<15, 51, 0>> }

Dates == { [day |-> d, hour |-> t[1], minute |-> t[2], second |-> t[3]] :
             d \in Days, t \in TimePoints }

\* Timestamps are strictly increasing along the bar sequence.
DateLT(a, b) ==
    \/ a.day < b.day
    \/ a.day = b.day /\ a.hour < b.hour
    \/ a.day = b.day /\ a.hour = b.hour /\ a.minute < b.minute
    \/ a.day = b.day /\ a.hour = b.hour /\ a.minute = b.minute /\ a.second < b.second

DateLE(a, b) == a = b \/ DateLT(a, b)

Lows == {90, 96, 100}
Highs == {110, 120}
Closes == {100, 104}

\* A bar of a stock under half a dollar, where TRADE_SIZE_DOLLARS buys more
\* than 200 shares.
PennyShape == [low |-> 38, high |-> 44, close |-> 40]

\* A bar of a stock above the initial capital: one share costs more than the
\* account holds.
ExpensiveShape == [low |-> 59000, high |-> 61000, close |-> 60000]

\* A bar of a stock just under the initial capital: one share at the entry
\* price fits in the account, one share and its commission do not.
NearCapitalShape == [low |-> 49000, high |-> 50500, close |-> 49850]

BarShapes == { [low |-> l, high |-> h, close |-> c] :
                 l \in Lows, h \in Highs, c \in Closes }
             \cup {PennyShape, ExpensiveShape, NearCapitalShape}

MkBar(d, s) == [date |-> d, low |-> s.low, high |-> s.high, close |-> s.close]

\* What check_all_entry_conditions returns for the 1-minute bars of a step:
\* the verdict and the two reference prices of the pattern (pullback low
\* strictly below the recent high), with the number of 1-minute bars given.
\* The MACD check needs MACD_SLOW bars, so an approval has at least that many.
EntryRefs == { <<97, 105>>, <<100, 105>>, <<80, 90>>, <<36, 39>> }

EntrySignals ==
    { [len_1m |-> 9, all_ok |-> FALSE, pullback_low |-> 0, recent_high |-> 0],
      [len_1m |-> MACD_SLOW, all_ok |-> FALSE, pullback_low |-> 0, recent_high |-> 0] }
    \cup { [len_1m |-> MACD_SLOW, all_ok |-> TRUE,
            pullback_low |-> r[1], recent_high |-> r[2]] : r \in EntryRefs }

(***************************************************************************)
(* Arithmetic helpers.                                                     *)
(***************************************************************************)
Max(a, b) == IF a >= b THEN a ELSE b

\* round(n / d) to the nearest integer, ties to even (Python's round on the
\* decimal value), for n >= 0 and d > 0.
RoundDiv(n, d) ==
    LET q == n \div d
        r == n % d
    IN  IF 2 * r < d THEN q
        ELSE IF 2 * r > d THEN q + 1
        ELSE IF q % 2 = 0 THEN q ELSE q + 1

\* Exact money [mills, sec]: value = mills + sec * SEC_FEE_NUM / SEC_FEE_DEN mills.
Money(m, s) == [mills |-> m, sec |-> s]
MoneyAdd(a, b) == Money(a.mills + b.mills, a.sec + b.sec)
MoneySub(a, b) == Money(a.mills - b.mills, a.sec - b.sec)

\* a > b for exact money amounts:  D + X / SEC_FEE_DEN > 0 with D an integer
\* is  D > floor(-X / SEC_FEE_DEN).
MoneyGT(a, b) ==
    LET D == a.mills - b.mills
        X == SEC_FEE_NUM * (a.sec - b.sec)
    IN  D > ((0 - X) \div SEC_FEE_DEN)

(***************************************************************************)
(* Shared strategy functions (RossCameron-Strategy.py).                    *)
(***************************************************************************)
\* Exit if the latest bar's low is below the previous bar's low; a sequence
\* of fewer than two bars gives no signal.
check_dynamic_exit(bars) ==
    IF Len(bars) < 2 THEN FALSE
    ELSE bars[Len(bars)].low < bars[Len(bars) - 1].low

check_stop_loss_hit(current_bar, stop_price) == current_bar.low <= stop_price

check_profit_target_hit(current_bar, profit_price) == current_bar.high >= profit_price

check_end_of_day(current_time) ==
    IF current_time.hour = END_OF_DAY_HOUR /\ current_time.minute >= END_OF_DAY_MINUTE
    THEN TRUE
    ELSE IF current_time.hour > END_OF_DAY_HOUR THEN TRUE
    ELSE FALSE

\* calculate_position_size without the minimum of one share.
calculate_position_size_without_minimum(account_balance, entry_price, stop_price) ==
    TRADE_SIZE_CENTS \div entry_price

\* shares = int(TRADE_SIZE_DOLLARS / entry_price), at least 1; the balance and
\* the stop are not read.
calculate_position_size(account_balance, entry_price, stop_price) ==
    Max(TRADE_SIZE_CENTS \div entry_price, 1)

\* calculate_commission without the SEC fee on sells.
calculate_commission_without_sec_fee(shares, trade_value, is_sell) ==
    Money(Max(shares * COMMISSION_PER_SHARE_MILLS, COMMISSION_MINIMUM_MILLS), 0)

\* trade_value in mills; the SEC fee is carried in the sec part.
calculate_commission(shares, trade_value, is_sell) ==
    LET commission == Max(shares * COMMISSION_PER_SHARE_MILLS, COMMISSION_MINIMUM_MILLS)
    IN  IF is_sell THEN Money(commission, trade_value)
        ELSE Money(commission, 0)

NoPrices == [ok |-> FALSE]

\* (entry_price, stop_price, profit_price), or (None, None, None).
calculate_entry_exit_prices(current_price, pullback_low, recent_high) ==
    LET entry_price == RoundDiv(current_price * (1000 + ENTRY_SPREAD_PER_MILLE), 1000)
        \* breakout_pct > 10.0, with breakout_pct = 0 when recent_high is 0
        strong == recent_high # 0
                  /\ (entry_price - recent_high) * 100 > 10 * recent_high
        stop_price == IF strong THEN RoundDiv(recent_high * 99, 100)
                      ELSE RoundDiv(pullback_low * 99, 100)
        profit_price == RoundDiv(entry_price * (100 + PROFIT_TARGET_PCT_X100), 100)
    IN  \* stop_distance_pct < 0.02  is  (entry - stop) * 100 < 2 * entry
        IF stop_price >= entry_price \/ (entry_price - stop_price) * 100 < 2 * entry_price
        THEN NoPrices
        ELSE [ok |-> TRUE, entry_price |-> entry_price, stop_price |-> stop_price,
              profit_price |-> profit_price]

\* calculate_entry_exit_prices of Breakout-Strategy.py: the stop is 2% under
\* the consolidation low; consolidation_high is not read.
breakout_calculate_entry_exit_prices(current_price, consolidation_low, consolidation_high) ==
    LET entry_price == RoundDiv(current_price * (1000 + ENTRY_SPREAD_PER_MILLE), 1000)
        stop_price == RoundDiv(consolidation_low * 98, 100)
        profit_price == RoundDiv(entry_price * (100 + Breakout_PROFIT_TARGET_PCT_X100), 100)
    IN  IF stop_price >= entry_price \/ (entry_price - stop_price) * 100 < 2 * entry_price
        THEN NoPrices
        ELSE [ok |-> TRUE, entry_price |-> entry_price, stop_price |-> stop_price,
              profit_price |-> profit_price]

\* n / d lies exactly half way between two integers.  round() works on the
\* binary product, which then falls to either side: RoundDiv gives the
\* result of round() for every other n / d.
HalfWay(n, d) == 2 * (n % d) = d

(***************************************************************************)
(* Session windows (RossCameron-Backtest.py).                              *)
(***************************************************************************)
is_premarket(dt) ==
    IF dt.hour > PREMARKET_START_HOUR /\ dt.hour < MARKET_OPEN_HOUR THEN TRUE
    ELSE IF dt.hour = PREMARKET_START_HOUR /\ dt.minute >= PREMARKET_START_MINUTE THEN TRUE
    ELSE IF dt.hour = MARKET_OPEN_HOUR /\ dt.minute < MARKET_OPEN_MINUTE THEN TRUE
    ELSE FALSE

is_regular_hours(dt) ==
    IF dt.hour > MARKET_OPEN_HOUR /\ dt.hour < MARKET_CLOSE_HOUR THEN TRUE
    ELSE IF dt.hour = MARKET_OPEN_HOUR /\ dt.minute >= MARKET_OPEN_MINUTE THEN TRUE
    ELSE IF dt.hour = MARKET_CLOSE_HOUR /\ dt.minute <= MARKET_CLOSE_MINUTE THEN TRUE
    ELSE FALSE

(***************************************************************************)
(* BacktestEngine (RossCameron-Backtest.py).                               *)
(***************************************************************************)
VARIABLES
    i,                      \* index of the bar the loop processed last
    current_bar,            \* bars_10s_list[i]
    position,               \* self.position: None or the open position
    trades,                 \* self.trades: the ledger of closed trades
    capital,                \* self.capital
    trading_halted_today,   \* self.trading_halted_today
    current_trading_date,   \* self.current_trading_date (0 stands for None)
    pc                      \* "loop" inside the for loop, "done" after it

simVars == <<i, current_bar, position, trades, capital, trading_halted_today,
             current_trading_date, pc>>

None == [open |-> FALSE]

\* recent_10s = bars_10s_list[i - lookback_bars : i + 1] always holds
\* lookback_bars + 1 bars; the model keeps its last two.
recent_10s_len == lookback_bars + 1

\* bars_10s[entry_bar_idx:], Python's slice of a list of recent_10s_len bars:
\* empty when the start is at or past the end.  check_dynamic_exit reads only
\* the length and the last two bars, so a slice of two or more bars is given
\* by its last two.
bars_since_entry(previous_bar, bar, entry_bar_idx) ==
    LET n == IF entry_bar_idx >= recent_10s_len THEN 0
             ELSE recent_10s_len - entry_bar_idx
    IN  IF n = 0 THEN << >>
        ELSE IF n = 1 THEN <<bar>>
        ELSE <<previous_bar, bar>>

NoExit == [should_exit |-> FALSE]

\* check_exit_conditions with its first two tests swapped: the profit target
\* is tested before the stop.
check_exit_conditions_target_first(pos, previous_bar, bar, current_time) ==
    IF pos = None THEN NoExit
    ELSE IF check_profit_target_hit(bar, pos.profit_price)
    THEN [should_exit |-> TRUE, exit_price |-> pos.profit_price,
          exit_reason |-> "PROFIT TARGET"]
    ELSE IF check_stop_loss_hit(bar, pos.stop_price)
    THEN [should_exit |-> TRUE, exit_price |-> pos.stop_price, exit_reason |-> "STOP LOSS"]
    ELSE IF /\ Len(bars_since_entry(previous_bar, bar, pos.entry_bar_idx)) >= 2
            /\ check_dynamic_exit(bars_since_entry(previous_bar, bar, pos.entry_bar_idx))
    THEN [should_exit |-> TRUE, exit_price |-> bar.close, exit_reason |-> "DYNAMIC EXIT"]
    ELSE IF check_end_of_day(current_time)
    THEN [should_exit |-> TRUE, exit_price |-> bar.close, exit_reason |-> "END OF DAY"]
    ELSE NoExit

\* (should_exit, exit_price, exit_reason) for the open position pos.
check_exit_conditions(pos, previous_bar, bar, current_time) ==
    IF pos = None THEN NoExit
    ELSE IF check_stop_loss_hit(bar, pos.stop_price)
    THEN [should_exit |-> TRUE, exit_price |-> pos.stop_price, exit_reason |-> "STOP LOSS"]
    ELSE IF check_profit_target_hit(bar, pos.profit_price)
    THEN [should_exit |-> TRUE, exit_price |-> pos.profit_price,
          exit_reason |-> "PROFIT TARGET"]
    ELSE IF /\ Len(bars_since_entry(previous_bar, bar, pos.entry_bar_idx)) >= 2
            /\ check_dynamic_exit(bars_since_entry(previous_bar, bar, pos.entry_bar_idx))
    THEN [should_exit |-> TRUE, exit_price |-> bar.close, exit_reason |-> "DYNAMIC EXIT"]
    ELSE IF check_end_of_day(current_time)
    THEN [should_exit |-> TRUE, exit_price |-> bar.close, exit_reason |-> "END OF DAY"]
    ELSE NoExit

NoEntry == [should_enter |-> FALSE]

\* (should_enter, entry_price, stop_price, profit_price, shares); sig is what
\* check_all_entry_conditions returned for the 1-minute bars of this step.
\* check_entry_conditions without the test of the cost against the capital.
check_entry_conditions_without_cost_test(sig, current_price, cap) ==
    IF sig.len_1m < MIN_BARS_FOR_PATTERN THEN NoEntry
    ELSE IF ~sig.all_ok THEN NoEntry
    ELSE LET prices == calculate_entry_exit_prices(current_price, sig.pullback_low,
                                                   sig.recent_high)
         IN  IF ~prices.ok THEN NoEntry
             ELSE LET shares == calculate_position_size(cap, prices.entry_price,
                                                        prices.stop_price)
                  IN  [should_enter |-> TRUE,
                       entry_price |-> prices.entry_price,
                       stop_price |-> prices.stop_price,
                       profit_price |-> prices.profit_price,
                       shares |-> shares]

check_entry_conditions(sig, current_price, cap) ==
    IF sig.len_1m < MIN_BARS_FOR_PATTERN THEN NoEntry
    ELSE IF ~sig.all_ok THEN NoEntry
    ELSE LET prices == calculate_entry_exit_prices(current_price, sig.pullback_low,
                                                   sig.recent_high)
         IN  IF ~prices.ok THEN NoEntry
             ELSE LET shares == calculate_position_size(cap, prices.entry_price,
                                                        prices.stop_price)
                      cost == prices.entry_price * shares * 10
                  IN  IF MoneyGT(Money(cost, 0), cap) THEN NoEntry
                      ELSE [should_enter |-> TRUE,
                            entry_price |-> prices.entry_price,
                            stop_price |-> prices.stop_price,
                            profit_price |-> prices.profit_price,
                            shares |-> shares]

\* The engine's fields that a step rewrites.
Engine(pos, tr, cap, halted) ==
    [position |-> pos, trades |-> tr, capital |-> cap, halted |-> halted]

\* enter_position with the buy commission computed as that of a sell.
enter_position_with_sec_fee(e, entry_price, stop_price, profit_price, shares, entry_time, entry_bar_idx) ==
    LET cost == entry_price * shares * 10
        buy_commission == calculate_commission(shares, cost, TRUE)
    IN  [e EXCEPT
           !.position = [open |-> TRUE,
                         entry_price |-> entry_price,
                         stop_price |-> stop_price,
                         profit_price |-> profit_price,
                         shares |-> shares,
                         entry_time |-> entry_time,
                         entry_bar_idx |-> entry_bar_idx,
                         buy_commission |-> buy_commission],
           !.capital = MoneySub(e.capital, MoneyAdd(Money(cost, 0), buy_commission))]

enter_position(e, entry_price, stop_price, profit_price, shares, entry_time, entry_bar_idx) ==
    LET cost == entry_price * shares * 10
        buy_commission == calculate_commission(shares, cost, FALSE)
    IN  [e EXCEPT
           !.position = [open |-> TRUE,
                         entry_price |-> entry_price,
                         stop_price |-> stop_price,
                         profit_price |-> profit_price,
                         shares |-> shares,
                         entry_time |-> entry_time,
                         entry_bar_idx |-> entry_bar_idx,
                         buy_commission |-> buy_commission],
           !.capital = MoneySub(e.capital, MoneyAdd(Money(cost, 0), buy_commission))]

\* The ledger record leaves out pnl_pct, a ratio only printed and exported.
\* exit_position putting the new trade at the head of the ledger.
exit_position_inserting_first(e, exit_price, exit_time, exit_reason) ==
    IF e.position = None THEN e
    ELSE LET shares == e.position.shares
             entry_price == e.position.entry_price
             buy_commission == e.position.buy_commission
             proceeds == exit_price * shares * 10
             sell_commission == calculate_commission(shares, proceeds, TRUE)
             pnl_gross == (exit_price - entry_price) * shares * 10
             total_commission == MoneyAdd(buy_commission, sell_commission)
             pnl_net == MoneySub(Money(pnl_gross, 0), total_commission)
             trade == [entry_time |-> e.position.entry_time,
                       exit_time |-> exit_time,
                       entry_price |-> entry_price,
                       exit_price |-> exit_price,
                       shares |-> shares,
                       pnl |-> pnl_net,
                       pnl_gross |-> pnl_gross,
                       commission |-> total_commission,
                       exit_reason |-> exit_reason]
         IN  [e EXCEPT
                !.capital = MoneyAdd(e.capital, MoneySub(Money(proceeds, 0), sell_commission)),
                !.trades = <<trade>> \o e.trades,
                !.position = None]

\* exit_position crediting the proceeds without taking the sell commission off.
exit_position_crediting_gross_proceeds(e, exit_price, exit_time, exit_reason) ==
    IF e.position = None THEN e
    ELSE LET shares == e.position.shares
             entry_price == e.position.entry_price
             buy_commission == e.position.buy_commission
             proceeds == exit_price * shares * 10
             sell_commission == calculate_commission(shares, proceeds, TRUE)
             pnl_gross == (exit_price - entry_price) * shares * 10
             total_commission == MoneyAdd(buy_commission, sell_commission)
             pnl_net == MoneySub(Money(pnl_gross, 0), total_commission)
             trade == [entry_time |-> e.position.entry_time,
                       exit_time |-> exit_time,
                       entry_price |-> entry_price,
                       exit_price |-> exit_price,
                       shares |-> shares,
                       pnl |-> pnl_net,
                       pnl_gross |-> pnl_gross,
                       commission |-> total_commission,
                       exit_reason |-> exit_reason]
         IN  [e EXCEPT
                !.capital = MoneyAdd(e.capital, Money(proceeds, 0)),
                !.trades = Append(e.trades, trade),
                !.position = None]

exit_position(e, exit_price, exit_time, exit_reason) ==
    IF e.position = None THEN e
    ELSE LET shares == e.position.shares
             entry_price == e.position.entry_price
             buy_commission == e.position.buy_commission
             proceeds == exit_price * shares * 10
             sell_commission == calculate_commission(shares, proceeds, TRUE)
             pnl_gross == (exit_price - entry_price) * shares * 10
             total_commission == MoneyAdd(buy_commission, sell_commission)
             pnl_net == MoneySub(Money(pnl_gross, 0), total_commission)
             trade == [entry_time |-> e.position.entry_time,
                       exit_time |-> exit_time,
                       entry_price |-> entry_price,
                       exit_price |-> exit_price,
                       shares |-> shares,
                       pnl |-> pnl_net,
                       pnl_gross |-> pnl_gross,
                       commission |-> total_commission,
                       exit_reason |-> exit_reason]
         IN  [e EXCEPT
                !.capital = MoneyAdd(e.capital, MoneySub(Money(proceeds, 0), sell_commission)),
                !.trades = Append(e.trades, trade),
                !.position = None]

\* "Check exit conditions FIRST": the exit part of one loop iteration.
exit_step(e, previous_bar, bar, current_time) ==
    IF e.position # None
    THEN LET x == check_exit_conditions(e.position, previous_bar, bar, current_time)
         IN  IF x.should_exit
             THEN LET closed == exit_position(e, x.exit_price, current_time, x.exit_reason)
                  IN  IF x.exit_reason = "END OF DAY"
                      THEN [closed EXCEPT !.halted = TRUE]
                      ELSE closed
             ELSE e
    ELSE e

\* entry_allowed without one of its two conjuncts.
entry_allowed_ignoring_position(e) == ~e.halted

entry_allowed_ignoring_halt(e) == e.position = None

\* "Check entry conditions (only if not in position and trading not halted)".
entry_allowed(e) == e.position = None /\ ~e.halted

entry_step(e, sig, bar, current_time, idx) ==
    IF entry_allowed(e)
    THEN LET n == check_entry_conditions(sig, bar.close, e.capital)
         IN  IF n.should_enter
             THEN enter_position(e, n.entry_price, n.stop_price, n.profit_price,
                                 n.shares, current_time, idx)
             ELSE e
    ELSE e

\* loop_body with the out-of-hours "continue" placed before the exit check.
loop_body_hours_before_exit(e, previous_bar, bar, sig, idx) ==
    IF ~is_premarket(bar.date) /\ ~is_regular_hours(bar.date)
    THEN e
    ELSE entry_step(exit_step(e, previous_bar, bar, bar.date), sig, bar, bar.date, idx)

\* loop_body without the out-of-hours "continue".
loop_body_without_hours_test(e, previous_bar, bar, sig, idx) ==
    entry_step(exit_step(e, previous_bar, bar, bar.date), sig, bar, bar.date, idx)

\* One iteration of  for i in range(lookback_bars, len(bars_10s_list)).
loop_body(e, previous_bar, bar, sig, idx) ==
    LET current_time == bar.date
        afterExit == exit_step(e, previous_bar, bar, current_time)
    IN  IF ~is_premarket(current_time) /\ ~is_regular_hours(current_time)
        THEN afterExit
        ELSE entry_step(afterExit, sig, bar, current_time, idx)

(***************************************************************************)
(* Properties of the simulation.                                           *)
(***************************************************************************)
\* The step just taken processed a bar and closed the position that was open
\* before it, for the given reason and at the given price.
ClosedBy(reason, price) ==
    /\ Len(trades') = Len(trades) + 1
    /\ trades'[Len(trades')].exit_reason = reason
    /\ trades'[Len(trades')].exit_price = price
    /\ trades'[Len(trades')].entry_time = position.entry_time

InTradingHours(dt) == is_premarket(dt) \/ is_regular_hours(dt)

\* C1: a step that starts with an open position and records no exit leaves
\* the position record unchanged (no entry is made over an open position).
C1_SinglePosition ==
    [][(position # None /\ Len(trades') = Len(trades)) => position' = position]_simVars

\* A position that stayed open across a later bar inside trading hours, where
\* the entry check would otherwise have run.
C1_Witness ==
    /\ pc = "loop"
    /\ position # None
    /\ i > position.entry_bar_idx
    /\ InTradingHours(current_bar.date)

\* C2 (as claimed): a position open for at least two bars is closed with
\* DYNAMIC EXIT at the bar's close by every bar that hits neither stop nor
\* target and whose low is below the previous bar's low.
C2_DynamicExitFires ==
    [][(/\ pc = "loop" /\ i' = i + 1
        /\ position # None
        /\ (i + 1) - position.entry_bar_idx + 1 >= 2
        /\ current_bar'.low > position.stop_price
        /\ current_bar'.high < position.profit_price
        /\ current_bar'.low < current_bar.low)
       => ClosedBy("DYNAMIC EXIT", current_bar'.close)]_simVars

\* C4: on every bar processed with an open position, a low at or below the
\* stop closes it as STOP LOSS at the stop price even when the high reaches
\* the target; otherwise a high at or above the target closes it as PROFIT
\* TARGET at the target price.
C4_StopBeforeTarget ==
    [][(pc = "loop" /\ i' = i + 1 /\ position # None) =>
        /\ (current_bar'.low <= position.stop_price
              => ClosedBy("STOP LOSS", position.stop_price))
        /\ (current_bar'.low > position.stop_price
            /\ current_bar'.high >= position.profit_price
              => ClosedBy("PROFIT TARGET", position.profit_price))]_simVars

\* The last bar hit both the stop and the target of the position it closed,
\* the low exactly at the stop and the high exactly at the target.
C4_Witness ==
    /\ pc = "loop"
    /\ Len(trades) >= 1
    /\ LET t == trades[Len(trades)]
       IN  /\ t.exit_time = current_bar.date
           /\ t.exit_reason = "STOP LOSS"
           /\ t.exit_price = current_bar.low
           /\ current_bar.high = RoundDiv(t.entry_price * (100 + PROFIT_TARGET_PCT_X100), 100)

\* No position, open or closed, was entered later on the calendar date of an
\* END OF DAY exit.
NoEntryAfterEndOfDay ==
    \A k \in 1..Len(trades) :
        trades[k].exit_reason = "END OF DAY" =>
            /\ \A j \in (k + 1)..Len(trades) :
                   trades[j].entry_time.day # trades[k].exit_time.day
            /\ position # None => position.entry_time.day # trades[k].exit_time.day

\* C5: after an END OF DAY exit no position is opened on a later bar of that
\* calendar date, and the halt flag is cleared only by a bar of another date.
C5_EndOfDayHalt ==
    /\ []NoEntryAfterEndOfDay
    /\ [][(trading_halted_today /\ ~trading_halted_today')
            => current_bar'.date.day # current_trading_date]_simVars
    /\ [][(\E r \in {"END OF DAY"} : ClosedBy(r, trades'[Len(trades')].exit_price))
            => trading_halted_today' /\ position' = None]_simVars

\* After an END OF DAY exit the loop processed a later bar of the same date
\* inside trading hours and stayed halted.
C5_Witness ==
    /\ pc = "loop"
    /\ trading_halted_today
    /\ Len(trades) >= 1
    /\ trades[Len(trades)].exit_reason = "END OF DAY"
    /\ trades[Len(trades)].exit_time.day = current_bar.date.day
    /\ DateLT(trades[Len(trades)].exit_time, current_bar.date)
    /\ InTradingHours(current_bar.date)

(***************************************************************************)
(* The live algorithm (RossCameron-Algo.py): the TradingAlgo object, the   *)
(* broker session it talks to, its callbacks and the monitoring loop.      *)
(***************************************************************************)
VARIABLES
    app,              \* the TradingAlgo object: oid and the per-symbol dictionaries
    orders,           \* the broker's order book: order id -> order
    broker_position,  \* shares the broker account holds, per symbol
    callbacks,        \* broker messages not yet delivered to the callback thread
    now,              \* the wall clock (US/Eastern): [day, hour, minute]
    loop_pc           \* where the monitoring loop stands: [block, k], the clock
                      \* reading its cycle began at, and whether a cycle was
                      \* completed at the current clock reading

liveVars == <<app, orders, broker_position, callbacks, now, loop_pc>>

\* One call of a stateless strategy function.
VARIABLES
    fn_in,            \* the arguments of the call
    fn_out            \* what the call returned or raised; NoResult before it

fnVars == <<fn_in, fn_out>>

vars == <<i, current_bar, position, trades, capital, trading_halted_today,
          current_trading_date, pc, app, orders, broker_position, callbacks, now,
          loop_pc, fn_in, fn_out>>

\* Orders the session may submit: order ids run from 1 to MaxOrders.
MaxOrders == 5
\* Calendar days the live session runs through.
MaxLiveDay == 2

\* symbols: the list the operator enters (one symbol).
symbols == <<"AAA">>
Symbols == { symbols[k] : k \in 1..Len(symbols) }

OrderIds == 1..MaxOrders

\* Clock readings <<hour, minute>> the steps can observe: before pre-market,
\* pre-market, regular hours, the end-of-day cutoff.
ClockPoints == << <<4, 0>>, <<9, 20>>, <<9, 30>>, <<15, 50>> >>

NoClock == [day |-> 0, hour |-> 0, minute |-> 0]

Clock(d, k) == [day |-> d, hour |-> ClockPoints[k][1], minute |-> ClockPoints[k][2]]

\* time.time(): seconds, counted from the start of day 0.
time_time(t) == t.day * 86400 + t.hour * 3600 + t.minute * 60

\* Quotes and fills, in cents.  The ask that check_and_trade reads; the bids
\* the pre-market monitoring reads (0: no quote arrived).
AskPrice == 100
Bids == {0, 90, 100, 120}

\* The ids and prices a dictionary holds; 0 stands for "key absent".
Absent == 0
NoTag == << >>

\* The order id dictionaries are keyed by symbol, so is every other field.
AppInit ==
    [oid |-> 0,
     in_position |-> [s \in Symbols |-> FALSE],
     pending_entry |-> [s \in Symbols |-> FALSE],
     position |-> [s \in Symbols |-> 0],
     premarket_entry |-> [s \in Symbols |-> FALSE],
     entry_order_id |-> [s \in Symbols |-> Absent],
     profit_order_id |-> [s \in Symbols |-> Absent],
     stop_order_id |-> [s \in Symbols |-> Absent],
     profit_order_active |-> [s \in Symbols |-> FALSE],
     stop_order_active |-> [s \in Symbols |-> FALSE],
     pending_entry_time |-> [s \in Symbols |-> Absent],
     entry_price |-> [s \in Symbols |-> Absent],
     stop_price |-> [s \in Symbols |-> Absent],
     profit_target_price |-> [s \in Symbols |-> Absent],
     oca_group |-> [s \in Symbols |-> NoTag],
     brackets_added_at_open |-> [s \in Symbols |-> FALSE]]

NoOrder == [status |-> "None"]

\* An Order() as the code fills it in, with what the model records about it:
\* kind names the code place that built it, session the clock reading then,
\* fill_session the clock reading at its fill, reported the last status the
\* orderStatus callback received for it.
\* price is lmtPrice or auxPrice (0 for a market order).
Order(sym, kind, action, orderType, qty, price, tif, ocaGroup, t) ==
    [status |-> "Working", sym |-> sym, kind |-> kind, action |-> action,
     orderType |-> orderType, totalQuantity |-> qty, price |-> price, tif |-> tif,
     ocaGroup |-> ocaGroup, cancel_requested |-> FALSE,
     session |-> t, fill_session |-> NoClock, reported |-> "none"]

\* The state the main thread rewrites: the object and the book; crashed is
\* set when a statement raises (the loop catches KeyboardInterrupt only).
World(a, o) == [app |-> a, orders |-> o, crashed |-> FALSE]

\* self.oid += 1; return self.oid
nextOid(w) == [w EXCEPT !.app.oid = @ + 1]

\* app.placeOrder(orderId, contract, order)
placeOrder(w, orderId, order) ==
    IF orderId \in OrderIds
    THEN [w EXCEPT !.orders[orderId] = order]
    ELSE w

\* app.cancelOrder(orderId): the request reaches the broker; the order leaves
\* the book when the broker acts on it.
cancelOrder(w, orderId) ==
    IF orderId \in OrderIds /\ w.orders[orderId].status = "Working"
    THEN [w EXCEPT !.orders[orderId].cancel_requested = TRUE]
    ELSE w

(***************************************************************************)
(* Callbacks of TradingAlgo, run by the broker session's reader thread.    *)
(***************************************************************************)
\* orderStatus(orderId, status, filled, ..., avgFillPrice, ...).  With one key
\* per dictionary each for-loop visits the symbol whose id matches, if any.
orderStatus(a, orderId, status, filled, avgFillPrice) ==
    LET a1 == IF \E s \in Symbols : a.profit_order_id[s] # Absent
                                    /\ orderId = a.profit_order_id[s]
              THEN LET s == CHOOSE s \in Symbols : orderId = a.profit_order_id[s]
                   IN  IF status \in {"Cancelled", "Filled", "Inactive"}
                       THEN [a EXCEPT !.profit_order_active[s] = FALSE]
                       ELSE IF status \in {"Submitted", "PreSubmitted"}
                       THEN [a EXCEPT !.profit_order_active[s] = TRUE]
                       ELSE a
              ELSE a
        a2 == IF \E s \in Symbols : a1.stop_order_id[s] # Absent
                                    /\ orderId = a1.stop_order_id[s]
              THEN LET s == CHOOSE s \in Symbols : orderId = a1.stop_order_id[s]
                   IN  IF status \in {"Cancelled", "Filled", "Inactive"}
                       THEN [a1 EXCEPT !.stop_order_active[s] = FALSE]
                       ELSE IF status \in {"Submitted", "PreSubmitted"}
                       THEN [a1 EXCEPT !.stop_order_active[s] = TRUE]
                       ELSE a1
              ELSE a1
    IN  IF \E s \in Symbols : a2.entry_order_id[s] # Absent
                              /\ orderId = a2.entry_order_id[s]
        THEN LET s == CHOOSE s \in Symbols : orderId = a2.entry_order_id[s]
             IN  IF status = "Filled"
                 THEN [a2 EXCEPT !.in_position[s] = TRUE,
                                 !.pending_entry[s] = FALSE,
                                 !.position[s] = filled,
                                 !.entry_price[s] = avgFillPrice]
                 ELSE IF status = "Cancelled"
                 THEN [a2 EXCEPT !.pending_entry[s] = FALSE,
                                 !.premarket_entry[s] = FALSE,
                                 !.pending_entry_time[s] = Absent]
                 ELSE a2
        ELSE a2

\* execDetails(reqId, contract, execution): an exit fill ("SLD") of a symbol
\* in position reduces the tracked size and, at zero, clears the tracking.
execDetails(a, symbol, side, shares) ==
    IF side = "SLD" /\ a.in_position[symbol]
    THEN LET left == a.position[symbol] - shares
         IN  IF left <= 0
             THEN [a EXCEPT !.position[symbol] = 0,
                            !.in_position[symbol] = FALSE,
                            !.entry_order_id[symbol] = Absent,
                            !.profit_order_id[symbol] = Absent,
                            !.stop_order_id[symbol] = Absent,
                            !.premarket_entry[symbol] = FALSE,
                            !.entry_price[symbol] = Absent,
                            !.stop_price[symbol] = Absent,
                            !.profit_target_price[symbol] = Absent]
             ELSE [a EXCEPT !.position[symbol] = left]
    ELSE a

\* Session windows read from the wall clock.
algo_is_premarket == is_premarket(now)

algo_is_regular_hours == is_regular_hours(now)

is_trading_hours == algo_is_premarket \/ algo_is_regular_hours

is_near_close == check_end_of_day(now)

(***************************************************************************)
(* check_and_trade and the blocks of the monitoring loop.                  *)
(***************************************************************************)
\* What one scan of a symbol reads from the market-data collaborator: whether
\* the bar requests and the quote came back, and what
\* check_all_entry_conditions makes of the 1-minute bars.  With data_ok
\* false the remaining fields say what the checks would make of the data
\* that did arrive; check_and_trade returns before it reads them.
TradeInputs ==
    { [data_ok |-> FALSE, all_ok |-> FALSE, pullback_low |-> 0, recent_high |-> 0],
      [data_ok |-> FALSE, all_ok |-> TRUE, pullback_low |-> 97, recent_high |-> 105],
      [data_ok |-> TRUE, all_ok |-> FALSE, pullback_low |-> 0, recent_high |-> 0],
      [data_ok |-> TRUE, all_ok |-> TRUE, pullback_low |-> 97, recent_high |-> 105],
      [data_ok |-> TRUE, all_ok |-> TRUE, pullback_low |-> 100, recent_high |-> 105] }

\* What one monitoring pass of a symbol reads: the 10-second bars (none when
\* the request failed), the bid of the pre-market stop/target check and the
\* bid of the pre-market dynamic exit (0: no quote arrived).
MonitorBars ==
    { << >>,
      << [low |-> 100], [low |-> 100] >>,
      << [low |-> 100], [low |-> 96] >> }

MonitorInputs == [bars : MonitorBars, bid : Bids, bid2 : {0, 100}]

\* The stale-pending branch of check_and_trade (lines 374-395): ret tells
\* that the function returned "PENDING ENTRY" there.
stale_pending_check(w, symbol, t) ==
    LET a == w.app
    IN  IF a.pending_entry[symbol]
        THEN IF a.pending_entry_time[symbol] # Absent
             THEN IF time_time(t) - a.pending_entry_time[symbol] > 300
                  THEN LET w1 == IF a.entry_order_id[symbol] # Absent
                                 THEN [cancelOrder(w, a.entry_order_id[symbol])
                                         EXCEPT !.app.entry_order_id[symbol] = Absent]
                                 ELSE w
                       IN  [ret |-> FALSE,
                            w |-> [w1 EXCEPT !.app.pending_entry[symbol] = FALSE,
                                             !.app.pending_entry_time[symbol] = Absent,
                                             !.app.premarket_entry[symbol] = FALSE,
                                             !.app.stop_price[symbol] = Absent,
                                             !.app.profit_target_price[symbol] = Absent]]
                  ELSE [ret |-> TRUE, w |-> w]
             ELSE [ret |-> TRUE, w |-> w]
        ELSE [ret |-> FALSE, w |-> w]

\* The orders built and placed at the end of check_and_trade (lines 583-684),
\* given what is_premarket() returned at line 580.
place_orders(w, symbol, entry_price, stop_price, profit_price, qty, t, in_premarket) ==
    LET w1 == nextOid(w)
        parent_id == w1.app.oid
        parent == Order(symbol, "entry", "BUY", "LMT", qty, entry_price, "DAY", NoTag, t)
        w2 == [w1 EXCEPT !.app.stop_price[symbol] = stop_price,
                         !.app.profit_target_price[symbol] = profit_price]
    IN  IF ~in_premarket
        THEN LET oca_group_name == [src |-> "oid", n |-> parent_id]
                 profit_taker == Order(symbol, "target", "SELL", "LMT", qty, profit_price,
                                       "GTC", oca_group_name, t)
                 stop_loss == Order(symbol, "stop", "SELL", "STP", qty, stop_price,
                                    "GTC", oca_group_name, t)
                 w3 == nextOid(w2)
                 profit_id == w3.app.oid
                 w4 == nextOid(w3)
                 stop_id == w4.app.oid
                 w5 == [w4 EXCEPT !.app.oca_group[symbol] = oca_group_name,
                                  !.app.profit_order_id[symbol] = profit_id,
                                  !.app.stop_order_id[symbol] = stop_id,
                                  !.app.profit_order_active[symbol] = TRUE,
                                  !.app.stop_order_active[symbol] = TRUE,
                                  !.app.entry_order_id[symbol] = parent_id,
                                  !.app.pending_entry[symbol] = TRUE,
                                  !.app.pending_entry_time[symbol] = time_time(t)]
             IN  placeOrder(placeOrder(placeOrder(w5, parent_id, parent),
                                       profit_id, profit_taker),
                            stop_id, stop_loss)
        ELSE LET w5 == [w2 EXCEPT !.app.entry_order_id[symbol] = parent_id,
                                  !.app.pending_entry[symbol] = TRUE,
                                  !.app.pending_entry_time[symbol] = time_time(t),
                                  !.app.premarket_entry[symbol] = TRUE]
             IN  placeOrder(w5, parent_id, parent)

\* place_trade with the pre-market test left out: the full bracket is always
\* submitted.
place_trade_ignoring_premarket(w, symbol, entry_price, stop_price, profit_price, qty, t) ==
    place_orders(w, symbol, entry_price, stop_price, profit_price, qty, t, FALSE)

\* The order placement at the end of check_and_trade (lines 580-684).
place_trade(w, symbol, entry_price, stop_price, profit_price, qty, t) ==
    place_orders(w, symbol, entry_price, stop_price, profit_price, qty, t, is_premarket(t))

\* check_and_trade without the returns on missing bars or quote.
check_and_trade_ignoring_missing_data(w, symbol, inp, t) ==
    IF w.app.in_position[symbol] \/ w.app.pending_entry[symbol]
    THEN w
    ELSE LET st == stale_pending_check(w, symbol, t)
         IN  IF st.ret THEN st.w
             ELSE IF ~inp.all_ok THEN st.w
             ELSE IF inp.pullback_low = 0 THEN st.w
             ELSE LET prices == calculate_entry_exit_prices(AskPrice, inp.pullback_low,
                                                            inp.recent_high)
                  IN  IF ~prices.ok THEN st.w
                      ELSE IF prices.entry_price - prices.stop_price <= 0 THEN st.w
                      ELSE LET qty == calculate_position_size(0, prices.entry_price,
                                                              prices.stop_price)
                           IN  IF qty <= 0 THEN st.w
                               ELSE place_trade(st.w, symbol, prices.entry_price,
                                                prices.stop_price, prices.profit_price,
                                                qty, t)

\* check_and_trade(app, contract, symbol).  The account balance is not read
\* by calculate_position_size.
check_and_trade(w, symbol, inp, t) ==
    IF w.app.in_position[symbol] \/ w.app.pending_entry[symbol]
    THEN w
    ELSE LET st == stale_pending_check(w, symbol, t)
         IN  IF st.ret THEN st.w
             ELSE IF ~inp.data_ok THEN st.w
             ELSE IF ~inp.all_ok THEN st.w
             ELSE IF inp.pullback_low = 0 THEN st.w
             ELSE LET prices == calculate_entry_exit_prices(AskPrice, inp.pullback_low,
                                                            inp.recent_high)
                  IN  IF ~prices.ok THEN st.w
                      ELSE IF prices.entry_price - prices.stop_price <= 0 THEN st.w
                      ELSE LET qty == calculate_position_size(0, prices.entry_price,
                                                              prices.stop_price)
                           IN  IF qty <= 0 THEN st.w
                               ELSE place_trade(st.w, symbol, prices.entry_price,
                                                prices.stop_price, prices.profit_price,
                                                qty, t)

\* "Clean up all tracking" after a closing order (lines 787-803, 1290-1307).
clear_position_tracking(a, symbol) ==
    [a EXCEPT !.in_position[symbol] = FALSE,
              !.position[symbol] = 0,
              !.entry_order_id[symbol] = Absent,
              !.profit_order_id[symbol] = Absent,
              !.stop_order_id[symbol] = Absent,
              !.premarket_entry[symbol] = FALSE,
              !.entry_price[symbol] = Absent,
              !.stop_price[symbol] = Absent,
              !.profit_target_price[symbol] = Absent]

\* "Clean up all tracking" of the pre-market stop and target exits
\* (lines 1086-1097, 1124-1135): the bracket order ids are left alone.
clear_premarket_tracking(a, symbol) ==
    [a EXCEPT !.in_position[symbol] = FALSE,
              !.position[symbol] = 0,
              !.premarket_entry[symbol] = FALSE,
              !.entry_order_id[symbol] = Absent,
              !.entry_price[symbol] = Absent,
              !.stop_price[symbol] = Absent,
              !.profit_target_price[symbol] = Absent]

\* The near-close pass for one symbol (lines 763-825).
near_close_symbol(w, symbol, t) ==
    LET a == w.app
    IN  IF a.in_position[symbol] /\ a.position[symbol] > 0
        THEN LET w1 == IF a.profit_order_id[symbol] # Absent
                       THEN cancelOrder(w, a.profit_order_id[symbol]) ELSE w
                 w2 == IF a.stop_order_id[symbol] # Absent
                       THEN cancelOrder(w1, a.stop_order_id[symbol]) ELSE w1
                 close_order == Order(symbol, "close", "SELL", "MKT", a.position[symbol],
                                      0, "DAY", NoTag, t)
                 w3 == nextOid(w2)
                 w4 == placeOrder(w3, w3.app.oid, close_order)
             IN  [w4 EXCEPT !.app = clear_position_tracking(w4.app, symbol)]
        ELSE IF a.pending_entry[symbol]
        THEN LET w1 == IF a.entry_order_id[symbol] # Absent
                       THEN cancelOrder(w, a.entry_order_id[symbol]) ELSE w
             IN  [w1 EXCEPT !.app.pending_entry[symbol] = FALSE,
                            !.app.entry_order_id[symbol] = Absent,
                            !.app.premarket_entry[symbol] = FALSE,
                            !.app.stop_price[symbol] = Absent,
                            !.app.profit_target_price[symbol] = Absent]
        ELSE w

\* The stop and target that the transition block (lines 930-969) and the
\* immediate block (lines 987-1025) add: two orders with no OCA group.
add_stop_and_target(w, symbol, t) ==
    LET a == w.app
        stop_price == a.stop_price[symbol]
        profit_price == a.profit_target_price[symbol]
        qty == a.position[symbol]
    IN  IF stop_price > 0 /\ profit_price > 0 /\ qty > 0
        THEN LET profit_taker == Order(symbol, "target", "SELL", "LMT", qty, profit_price,
                                       "GTC", NoTag, t)
                 stop_loss == Order(symbol, "stop", "SELL", "STP", qty, stop_price,
                                    "GTC", NoTag, t)
                 w1 == nextOid(w)
                 profit_id == w1.app.oid
                 w2 == nextOid(w1)
                 stop_id == w2.app.oid
                 w3 == placeOrder(placeOrder(w2, profit_id, profit_taker),
                                  stop_id, stop_loss)
             IN  [w3 EXCEPT !.app.profit_order_id[symbol] = profit_id,
                            !.app.stop_order_id[symbol] = stop_id,
                            !.app.profit_order_active[symbol] = TRUE,
                            !.app.stop_order_active[symbol] = TRUE,
                            !.app.premarket_entry[symbol] = FALSE]
        ELSE w

\* The guard shared by the transition block and the immediate block.
needs_stop_at_open(a, symbol, t) ==
    /\ is_regular_hours(t)
    /\ a.in_position[symbol]
    /\ a.premarket_entry[symbol]
    /\ a.stop_order_id[symbol] = Absent

\* TRANSITION block for one symbol (lines 919-969).
transition_symbol(w, symbol, t) ==
    IF needs_stop_at_open(w.app, symbol, t)
    THEN add_stop_and_target(w, symbol, t)
    ELSE w

\* "Add bracket orders at market open" (lines 1141-1208).  The prices are
\* read with app.stop_price[symbol]: an absent key raises.
brackets_at_open(w, symbol, t) ==
    LET a == w.app
    IN  IF /\ is_regular_hours(t)
           /\ a.premarket_entry[symbol]
           /\ ~a.brackets_added_at_open[symbol]
        THEN IF a.profit_target_price[symbol] = Absent \/ a.stop_price[symbol] = Absent
             THEN [w EXCEPT !.crashed = TRUE]
             ELSE LET oca_group_name == [src |-> "time", n |-> time_time(t)]
                      profit_taker == Order(symbol, "target", "SELL", "LMT",
                                            a.position[symbol],
                                            a.profit_target_price[symbol], "GTC",
                                            oca_group_name, t)
                      stop_loss == Order(symbol, "stop", "SELL", "STP", a.position[symbol],
                                         a.stop_price[symbol], "GTC", oca_group_name, t)
                      w1 == nextOid(w)
                      profit_id == w1.app.oid
                      w2 == nextOid(w1)
                      stop_id == w2.app.oid
                      w3 == placeOrder(placeOrder(w2, profit_id, profit_taker),
                                       stop_id, stop_loss)
                  IN  [w3 EXCEPT !.app.oca_group[symbol] = oca_group_name,
                                 !.app.profit_order_id[symbol] = profit_id,
                                 !.app.stop_order_id[symbol] = stop_id,
                                 !.app.profit_order_active[symbol] = TRUE,
                                 !.app.stop_order_active[symbol] = TRUE,
                                 !.app.brackets_added_at_open[symbol] = TRUE]
        ELSE w

\* The guard of the dynamic exit in regular hours (lines 1224-1231).
has_active_brackets(a, symbol) ==
    a.stop_order_active[symbol] \/ a.profit_order_active[symbol]

\* The dynamic exit of one symbol (lines 1210-1308).
dynamic_exit(w, symbol, inp, t) ==
    LET a == w.app
        should_exit == check_dynamic_exit(inp.bars)
    IN  IF should_exit /\ a.position[symbol] > 0
        THEN LET w1 ==
                   IF is_premarket(t) \/ has_active_brackets(a, symbol)
                   THEN IF is_premarket(t)
                        THEN IF inp.bid2 # 0
                             THEN LET exit_order == Order(symbol, "dynamic_exit", "SELL",
                                                          "LMT", a.position[symbol],
                                                          inp.bid2, "DAY", NoTag, t)
                                      w2 == nextOid(w)
                                  IN  placeOrder(w2, w2.app.oid, exit_order)
                             ELSE w
                        ELSE LET exit_order == Order(symbol, "dynamic_exit", "SELL", "MKT",
                                                     a.position[symbol], 0, "DAY",
                                                     a.oca_group[symbol], t)
                                 w2 == nextOid(w)
                             IN  placeOrder(w2, w2.app.oid, exit_order)
                   ELSE w
             IN  [w1 EXCEPT !.app = clear_position_tracking(w1.app, symbol)]
        ELSE w

\* premarket_monitor with a market order in place of the limit at the bid.
premarket_monitor_market_order(w, symbol, inp, t) ==
    LET a == w.app
    IN  IF is_premarket(t) /\ a.premarket_entry[symbol] /\ inp.bid # 0
           /\ (inp.bid <= a.stop_price[symbol] \/ inp.bid >= a.profit_target_price[symbol])
        THEN LET kind == IF inp.bid <= a.stop_price[symbol] THEN "premarket_stop"
                         ELSE "premarket_target"
                 sell == Order(symbol, kind, "SELL", "MKT", a.position[symbol], 0,
                               "DAY", NoTag, t)
                 w1 == nextOid(w)
                 w2 == placeOrder(w1, w1.app.oid, sell)
             IN  [done |-> TRUE,
                  w |-> [w2 EXCEPT !.app = clear_premarket_tracking(w2.app, symbol)]]
        ELSE [done |-> FALSE, w |-> w]

\* The pre-market stop and target check of one symbol (lines 1050-1137):
\* done |-> TRUE when it placed an order and went on to the next symbol.
premarket_monitor(w, symbol, inp, t) ==
    LET a == w.app
    IN  IF is_premarket(t) /\ a.premarket_entry[symbol] /\ inp.bid # 0
           /\ (inp.bid <= a.stop_price[symbol] \/ inp.bid >= a.profit_target_price[symbol])
        THEN LET kind == IF inp.bid <= a.stop_price[symbol] THEN "premarket_stop"
                         ELSE "premarket_target"
                 sell == Order(symbol, kind, "SELL", "LMT", a.position[symbol], inp.bid,
                               "DAY", NoTag, t)
                 w1 == nextOid(w)
                 w2 == placeOrder(w1, w1.app.oid, sell)
             IN  [done |-> TRUE,
                  w |-> [w2 EXCEPT !.app = clear_premarket_tracking(w2.app, symbol)]]
        ELSE [done |-> FALSE, w |-> w]

\* One symbol of "Monitor active positions" (lines 972-1308).
monitor_symbol(w, symbol, inp, t) ==
    IF ~w.app.in_position[symbol] THEN w
    ELSE LET w1 == IF needs_stop_at_open(w.app, symbol, t)
                   THEN add_stop_and_target(w, symbol, t)
                   ELSE w
         IN  IF Len(inp.bars) < 2 THEN w1
             ELSE LET pm == premarket_monitor(w1, symbol, inp, t)
                  IN  IF pm.done THEN pm.w
                      ELSE LET w2 == brackets_at_open(pm.w, symbol, t)
                           IN  IF w2.crashed THEN w2
                               ELSE dynamic_exit(w2, symbol, inp, t)

(***************************************************************************)
(* The broker session: what becomes of the orders the loop hands over and  *)
(* which messages come back.                                               *)
(***************************************************************************)
\* The exchange's regular session, when stop and market orders execute.
exchange_open(t) ==
    LET m == t.hour * 60 + t.minute
    IN  m >= MARKET_OPEN_HOUR * 60 + MARKET_OPEN_MINUTE /\ m < 16 * 60

\* A message for the orderStatus callback / the execDetails callback.
StatusMsg(orderId, status, filled, avgFillPrice) ==
    [type |-> "orderStatus", orderId |-> orderId, status |-> status, filled |-> filled,
     avgFillPrice |-> avgFillPrice, symbol |-> "", side |-> "", shares |-> 0]

ExecMsg(symbol, side, shares) ==
    [type |-> "execDetails", orderId |-> 0, status |-> "", filled |-> 0,
     avgFillPrice |-> 0, symbol |-> symbol, side |-> side, shares |-> shares]

RECURSIVE CancelMsgs(_)
CancelMsgs(S) ==
    IF S = {} THEN << >>
    ELSE LET j == CHOOSE j \in S : \A x \in S : j <= x
         IN  <<StatusMsg(j, "Cancelled", 0, 0)>> \o CancelMsgs(S \ {j})

\* Working orders that leave the book when order id fills: the other members
\* of its OCA group (ocaType 1).
oca_siblings(id) ==
    { j \in OrderIds \ {id} :
        /\ orders[j].status = "Working"
        /\ orders[id].ocaGroup # NoTag
        /\ orders[j].ocaGroup = orders[id].ocaGroup }

\* The broker fills a working order in full.  The status message and, for a
\* sale, the execution message arrive in either order (a purchase's execution
\* message leaves the object unchanged and is not queued).
BrokerFill(id) ==
    /\ orders[id].status = "Working"
    /\ orders[id].orderType \in {"STP", "MKT"} => exchange_open(now)
    /\ LET o == orders[id]
           sibs == oca_siblings(id)
           st == StatusMsg(id, "Filled", o.totalQuantity, o.price)
           ex == ExecMsg(o.sym, "SLD", o.totalQuantity)
       IN  /\ orders' = [j \in OrderIds |->
                           IF j = id
                           THEN [o EXCEPT !.status = "Filled", !.fill_session = now]
                           ELSE IF j \in sibs
                           THEN [orders[j] EXCEPT !.status = "Cancelled"]
                           ELSE orders[j]]
           /\ broker_position' =
                 [broker_position EXCEPT
                    ![o.sym] = IF o.action = "BUY" THEN @ + o.totalQuantity
                               ELSE @ - o.totalQuantity]
           /\ IF o.action = "BUY"
              THEN callbacks' = callbacks \o <<st>> \o CancelMsgs(sibs)
              ELSE \/ callbacks' = callbacks \o <<st, ex>> \o CancelMsgs(sibs)
                   \/ callbacks' = callbacks \o <<ex, st>> \o CancelMsgs(sibs)
    /\ UNCHANGED <<app, now, loop_pc>>
    /\ UNCHANGED simVars
    /\ UNCHANGED fnVars

\* The broker acts on a cancel request.
BrokerCancel(id) ==
    /\ orders[id].status = "Working"
    /\ orders[id].cancel_requested
    /\ orders' = [orders EXCEPT ![id].status = "Cancelled"]
    /\ callbacks' = Append(callbacks, StatusMsg(id, "Cancelled", 0, 0))
    /\ UNCHANGED <<app, broker_position, now, loop_pc>>
    /\ UNCHANGED simVars
    /\ UNCHANGED fnVars

\* The reader thread hands the next message to its callback.
DeliverCallback ==
    /\ callbacks # << >>
    /\ LET m == Head(callbacks)
       IN  IF m.type = "orderStatus"
           THEN /\ app' = orderStatus(app, m.orderId, m.status, m.filled, m.avgFillPrice)
                /\ orders' = [orders EXCEPT ![m.orderId].reported = m.status]
           ELSE /\ app' = execDetails(app, m.symbol, m.side, m.shares)
                /\ orders' = orders
    /\ callbacks' = Tail(callbacks)
    /\ UNCHANGED <<broker_position, now, loop_pc>>
    /\ UNCHANGED simVars
    /\ UNCHANGED fnVars

\* Day orders still working when the day ends.
expiring == { j \in OrderIds : orders[j].status = "Working" /\ orders[j].tif = "DAY" }

\* Two readings of one day that a single cycle can span (a cycle lasts
\* seconds; the readings are minutes or hours apart).
close_readings(t1, t2) ==
    (t2.hour * 60 + t2.minute) - (t1.hour * 60 + t1.minute) <= 10

\* The wall clock moves to the next reading, after at least one whole cycle
\* ran at the current one.  Hours pass only between two cycles; the night
\* passes after the queued messages were delivered, and the day orders expire.
Tick ==
    /\ loop_pc.scanned
    /\ loop_pc' = [loop_pc EXCEPT !.scanned = FALSE]
    /\ \E d \in 1..MaxLiveDay, k \in 1..Len(ClockPoints) :
         /\ now = Clock(d, k)
         /\ IF k < Len(ClockPoints)
            THEN /\ loop_pc.block = "top" \/ close_readings(now, Clock(d, k + 1))
                 /\ now' = Clock(d, k + 1)
                 /\ UNCHANGED <<orders, callbacks>>
            ELSE /\ d < MaxLiveDay
                 /\ loop_pc.block = "top"
                 /\ callbacks = << >>
                 /\ now' = Clock(d + 1, 1)
                 /\ orders' = [j \in OrderIds |->
                                 IF j \in expiring
                                 THEN [orders[j] EXCEPT !.status = "Cancelled"]
                                 ELSE orders[j]]
                 /\ callbacks' = callbacks \o CancelMsgs(expiring)
    /\ UNCHANGED <<app, broker_position>>
    /\ UNCHANGED simVars
    /\ UNCHANGED fnVars

(***************************************************************************)
(* The monitoring loop (while True, lines 753-1311).                       *)
(***************************************************************************)
Top == [block |-> "top", k |-> 1, current_time |-> NoClock, scanned |-> FALSE]

\* The top of the loop after a cycle ended.
NextCycle == [Top EXCEPT !.scanned = TRUE]

\* The next position of a for-loop over symbols: the next symbol, or the
\* block that follows.
after_symbol(following) ==
    IF loop_pc.k < Len(symbols)
    THEN [loop_pc EXCEPT !.k = @ + 1]
    ELSE IF following = "top" THEN NextCycle
    ELSE [loop_pc EXCEPT !.block = following, !.k = 1]

\* The loop's variables after a block left the world w; a block that would
\* need an order id beyond MaxOrders is not taken.
LoopMoves(w, following) ==
    /\ w.app.oid <= MaxOrders
    /\ app' = w.app
    /\ orders' = w.orders
    /\ loop_pc' = IF w.crashed THEN [loop_pc EXCEPT !.block = "crashed"]
                  ELSE after_symbol(following)
    /\ UNCHANGED <<broker_position, callbacks, now>>
    /\ UNCHANGED simVars
    /\ UNCHANGED fnVars

\* Top of the loop: the near-close pass, the wait outside trading hours, or
\* a scan.
CycleStart ==
    /\ loop_pc.block = "top"
    /\ loop_pc' = IF is_near_close
                  THEN [loop_pc EXCEPT !.block = "close", !.current_time = now]
                  ELSE IF ~is_trading_hours THEN NextCycle
                  ELSE [loop_pc EXCEPT !.block = "trade", !.current_time = now]
    /\ UNCHANGED <<app, orders, broker_position, callbacks, now>>
    /\ UNCHANGED simVars
    /\ UNCHANGED fnVars

NearCloseStep ==
    /\ loop_pc.block = "close"
    /\ LoopMoves(near_close_symbol(World(app, orders), symbols[loop_pc.k], now), "top")

CheckAndTradeStep ==
    /\ loop_pc.block = "trade"
    /\ \E inp \in TradeInputs :
         LoopMoves(check_and_trade(World(app, orders), symbols[loop_pc.k], inp, now),
                   "transition")

TransitionStep ==
    /\ loop_pc.block = "transition"
    /\ LoopMoves(transition_symbol(World(app, orders), symbols[loop_pc.k], now), "monitor")

MonitorStep ==
    /\ loop_pc.block = "monitor"
    /\ \E inp \in MonitorInputs :
         LoopMoves(monitor_symbol(World(app, orders), symbols[loop_pc.k], inp, now), "top")

(***************************************************************************)
(* Specifications.                                                         *)
(***************************************************************************)
\* No call of a stateless function is made while the engine or the live
\* session runs.
NoCall == [kind |-> "none"]
NoResult == [fn |-> "none"]

FnIdle == fn_in = NoCall /\ fn_out = NoResult

\* The live session before its first cycle.
LiveIdle ==
    /\ app = AppInit
    /\ orders = [id \in OrderIds |-> NoOrder]
    /\ broker_position = [s \in Symbols |-> 0]
    /\ callbacks = << >>
    /\ now = Clock(1, 1)
    /\ loop_pc = Top

\* The last warm-up bar (index lookback_bars - 1): the first iteration has no
\* position, so of this bar only the timestamp is read.
WarmUpShape == [low |-> 100, high |-> 110, close |-> 100]

SimInit ==
    /\ i = lookback_bars - 1
    /\ current_bar \in { MkBar(d, WarmUpShape) : d \in Dates }
    /\ position = None
    /\ trades = << >>
    /\ capital = Money(initial_capital, 0)
    /\ trading_halted_today = FALSE
    /\ current_trading_date = 0
    /\ pc = "loop"
    /\ LiveIdle
    /\ FnIdle

\* The loop takes the next bar of the input and runs its body on it.
SimStep ==
    /\ pc = "loop"
    /\ i + 1 < lookback_bars + MaxBars
    /\ \E d \in Dates, s \in BarShapes, sig \in EntrySignals :
         /\ DateLT(current_bar.date, d)
         /\ LET bar == MkBar(d, s)
                newDay == current_trading_date = 0 \/ d.day # current_trading_date
                halted0 == IF newDay THEN FALSE ELSE trading_halted_today
                e == loop_body(Engine(position, trades, capital, halted0),
                               current_bar, bar, sig, i + 1)
            IN  /\ i' = i + 1
                /\ current_bar' = bar
                /\ current_trading_date' = d.day
                /\ position' = e.position
                /\ trades' = e.trades
                /\ capital' = e.capital
                /\ trading_halted_today' = e.halted
    /\ pc' = "loop"
    /\ UNCHANGED liveVars
    /\ UNCHANGED fnVars

\* SimFinish without the final close: the run ends with the position open.
SimFinish_without_close ==
    /\ pc = "loop"
    /\ pc' = "done"
    /\ UNCHANGED <<i, current_bar, position, trades, capital, trading_halted_today,
                   current_trading_date>>
    /\ UNCHANGED liveVars
    /\ UNCHANGED fnVars

\* The input is exhausted: "Close any remaining position at end".
SimFinish ==
    /\ pc = "loop"
    /\ LET e == IF position # None
                THEN exit_position(Engine(position, trades, capital, trading_halted_today),
                                   current_bar.close, current_bar.date, "END OF BACKTEST")
                ELSE Engine(position, trades, capital, trading_halted_today)
       IN  /\ position' = e.position
           /\ trades' = e.trades
           /\ capital' = e.capital
    /\ pc' = "done"
    /\ UNCHANGED <<i, current_bar, trading_halted_today, current_trading_date>>
    /\ UNCHANGED liveVars
    /\ UNCHANGED fnVars

SimNext == SimStep \/ SimFinish

SpecSim == SimInit /\ [][SimNext]_vars

\* The engine before its first bar, while the live session runs.
SimIdle ==
    /\ i = lookback_bars - 1
    /\ current_bar = MkBar([day |-> 1, hour |-> 4, minute |-> 59, second |-> 50],
                           WarmUpShape)
    /\ position = None
    /\ trades = << >>
    /\ capital = Money(initial_capital, 0)
    /\ trading_halted_today = FALSE
    /\ current_trading_date = 0
    /\ pc = "loop"

LiveInit == LiveIdle /\ SimIdle /\ FnIdle

LiveNext ==
    \/ CycleStart
    \/ NearCloseStep
    \/ CheckAndTradeStep
    \/ TransitionStep
    \/ MonitorStep
    \/ Tick
    \/ DeliverCallback
    \/ \E id \in OrderIds : BrokerFill(id)
    \/ \E id \in OrderIds : BrokerCancel(id)

SpecLive == LiveInit /\ [][LiveNext]_vars

(***************************************************************************)
(* Indicators and entry conditions (RossCameron-Strategy.py and            *)
(* Breakout-Strategy.py).  A bar is [open, high, low, close, volume] with  *)
(* prices in cents; a bar list is a sequence, oldest bar first.            *)
(***************************************************************************)
Min(a, b) == IF a <= b THEN a ELSE b

\* The Python slice s[a:b] for 0 <= a and b <= len(s), and s[-n:].
Slice(s, a, b) == SubSeq(s, a + 1, b)
LastBars(s, n) == SubSeq(s, Len(s) - n + 1, Len(s))

\* max(), min(), list.index() and sum() of a non-empty list of numbers.
MaxOf(s) == CHOOSE x \in { s[k] : k \in DOMAIN s } : \A k \in DOMAIN s : s[k] <= x
MinOf(s) == CHOOSE x \in { s[k] : k \in DOMAIN s } : \A k \in DOMAIN s : s[k] >= x
IndexOf(s, x) == (CHOOSE k \in DOMAIN s : s[k] = x /\ \A j \in 1..(k - 1) : s[j] # x) - 1
RECURSIVE SumOf(_)
SumOf(s) == IF s = <<>> THEN 0 ELSE s[1] + SumOf(Tail(s))

HighsOf(bars) == [k \in DOMAIN bars |-> bars[k].high]
LowsOf(bars) == [k \in DOMAIN bars |-> bars[k].low]
ClosesOf(bars) == [k \in DOMAIN bars |-> bars[k].close]
VolumesOf(bars) == [k \in DOMAIN bars |-> bars[k].volume]

\* The floats of calculate_macd, in units of 1 / MacdUnit of a cent.
MacdUnit == 100000

\* closes[i] * alpha + ema[i-1] * (1 - alpha) with alpha = 2 / (period + 1),
\* that is round((2 * close + (period - 1) * ema) / (period + 1)) in units of
\* 1 / MacdUnit; the whole multiples of period + 1 in ema are divided first,
\* which keeps the products within TLC's integers and gives the same value
\* (period + 1 is odd, so no quotient lies halfway).
EmaStep(ema, close, period) ==
    LET d == period + 1
    IN  (period - 1) * (ema \div d)
          + RoundDiv(2 * close * MacdUnit + (period - 1) * (ema % d), d)

\* One pass of the two loops of calculate_macd over a close: from ema_fast,
\* ema_slow and signal_line at the index before; alpha = 2 / (period + 1).
MacdStep(prev, close) ==
    LET ema_fast == EmaStep(prev.ema_fast, close, MACD_FAST)
        ema_slow == EmaStep(prev.ema_slow, close, MACD_SLOW)
        signal_line == RoundDiv(2 * (ema_fast - ema_slow)
                                  + (MACD_SIGNAL - 1) * prev.signal_line,
                                MACD_SIGNAL + 1)
    IN  [ema_fast |-> ema_fast, ema_slow |-> ema_slow, signal_line |-> signal_line]

\* The loops from index k (counted from 1) to the end of closes, with lines
\* the values at the index before; the values of an index are computed
\* before the loop moves on.
RECURSIVE macd_lines(_, _, _)
macd_lines(closes, k, lines) ==
    IF k > Len(closes)
    THEN lines
    ELSE LET next == MacdStep(lines, closes[k])
         IN  IF next = next THEN macd_lines(closes, k + 1, next) ELSE lines

NoMacd == [ok |-> FALSE]

\* (macd_line[-1], signal_line[-1], histogram[-1]), or (None, None, None).
calculate_macd(closes) ==
    IF Len(closes) < MACD_SLOW
    THEN NoMacd
    ELSE LET first == [ema_fast |-> closes[1] * MacdUnit,
                       ema_slow |-> closes[1] * MacdUnit, signal_line |-> 0]
             last == macd_lines(closes, 2, first)
             macd == last.ema_fast - last.ema_slow
         IN  [ok |-> TRUE, macd |-> macd, signal |-> last.signal_line,
              histogram |-> macd - last.signal_line]

NoVwap == [ok |-> FALSE]

\* total_pv / total_volume as the fraction num / den, or None; the typical
\* price of a bar is (high + low + close) / 3.
calculate_vwap(bars) ==
    IF Len(bars) < 2
    THEN NoVwap
    ELSE LET total_pv3 == SumOf([k \in DOMAIN bars |->
                                   (bars[k].high + bars[k].low + bars[k].close)
                                     * bars[k].volume])
             total_volume == SumOf(VolumesOf(bars))
         IN  IF total_volume = 0 THEN NoVwap
             ELSE [ok |-> TRUE, num |-> total_pv3, den |-> 3 * total_volume]

\* What a check returns, (bool, str), or the exception it raises.  Of a
\* message the fixed text is kept, without the formatted numbers.
Failed(msg) == [raised |-> FALSE, ok |-> FALSE, msg |-> msg]
Passed(msg) == [raised |-> FALSE, ok |-> TRUE, msg |-> msg]
Raised(error) == [raised |-> TRUE, error |-> error]

\* What a pattern check returns, (bool, str, float, float); 0 stands for None.
NoPattern(msg) == [raised |-> FALSE, ok |-> FALSE, msg |-> msg, low |-> 0, high |-> 0]
Pattern(msg, low, high) ==
    [raised |-> FALSE, ok |-> TRUE, msg |-> msg, low |-> low, high |-> high]

check_macd_positive(bars) ==
    IF Len(bars) < MIN_BARS_FOR_PATTERN
    THEN Failed("Not enough data")
    ELSE LET m == calculate_macd(ClosesOf(bars))
         IN  IF ~m.ok THEN Failed("MACD calculation failed")
             ELSE IF m.macd <= m.signal THEN Failed("MACD negative")
             ELSE IF m.histogram <= 0 THEN Failed("MACD crossing down")
             ELSE Passed("MACD positive")

\* check_macd_positive of Breakout-Strategy.py.  The message of the "not
\* accelerating" return formats histogram_prev with the format specification
\* ".4f if histogram_prev else 'N/A'": format() raises TypeError on None and
\* ValueError on a float, so the return statement never completes.
breakout_check_macd_positive(bars) ==
    IF Len(bars) < MIN_BARS_FOR_PATTERN + 2
    THEN Failed("Not enough data")
    ELSE LET closes == ClosesOf(bars)
             m == calculate_macd(closes)
             prev == calculate_macd(Slice(closes, 0, Len(closes) - 1))
         IN  IF ~m.ok THEN Failed("MACD calculation failed")
             ELSE IF m.macd <= m.signal THEN Failed("MACD negative")
             ELSE IF ~prev.ok THEN Raised("TypeError")
             ELSE IF m.histogram <= prev.histogram THEN Raised("ValueError")
             ELSE Passed("MACD positive & accelerating")

\* The first lookback of range(SURGE_LOOKBACK_MIN, min(SURGE_LOOKBACK_MAX + 1,
\* len(recent) - 2)) whose segment recent[check_start_idx:-2] rose by
\* MIN_SURGE_PCT percent or more from its low to its high; 0 if there is none.
SurgeLookback(recent) ==
    LET L == Len(recent)
        surges == { lookback \in SURGE_LOOKBACK_MIN..(Min(SURGE_LOOKBACK_MAX + 1, L - 2) - 1) :
                      /\ L - lookback - 2 >= 0
                      /\ LET segment == Slice(recent, L - lookback - 2, L - 2)
                             segment_low == MinOf(LowsOf(segment))
                             segment_high == MaxOf(HighsOf(segment))
                         IN  /\ Len(segment) >= 3
                             /\ (segment_high - segment_low) * 100
                                  >= MIN_SURGE_PCT * segment_low }
    IN  IF surges = {} THEN 0
        ELSE CHOOSE lookback \in surges : \A other \in surges : lookback <= other

\* detect_pullback_and_new_high without the test of the higher high.
detect_pullback_and_new_high_without_higher_high(bars) ==
    IF Len(bars) < MIN_BARS_FOR_PATTERN
    THEN NoPattern("Not enough bars")
    ELSE
    LET recent == IF Len(bars) >= PATTERN_LOOKBACK_BARS
                  THEN LastBars(bars, PATTERN_LOOKBACK_BARS) ELSE bars
        L == Len(recent)
        high_lookback_bars == Min(RECENT_HIGH_LOOKBACK, L - 2)
        recent_segment == Slice(recent, L - high_lookback_bars - 2, L - 2)
        highs == HighsOf(recent_segment)
        recent_high == MaxOf(highs)
        recent_high_idx == L - high_lookback_bars - 2 + IndexOf(highs, recent_high)
        bars_after_high == Slice(recent, recent_high_idx + 1, L - 1)
        pullback_low == MinOf(LowsOf(bars_after_high))
        last_bar == recent[L]
    IN  IF L < 8 THEN NoPattern("Insufficient data")
        ELSE IF SurgeLookback(recent) = 0 THEN NoPattern("No surge")
        ELSE IF Len(recent_segment) < 3 THEN NoPattern("Not enough bars for pattern")
        ELSE IF recent_high_idx >= L - 2 THEN NoPattern("High too recent, no pullback yet")
        ELSE IF Len(bars_after_high) = 0 THEN NoPattern("No bars for pullback")
        ELSE IF (recent_high - pullback_low) * 1000 < MIN_PULLBACK_PCT_X10 * recent_high
             THEN NoPattern("No pullback")
        ELSE IF (recent_high - pullback_low) * 100 > MAX_PULLBACK_PCT * recent_high
             THEN NoPattern("Pullback too deep")
        ELSE IF last_bar.close <= last_bar.open
             THEN NoPattern("Breakout bar must close green")
        ELSE IF (recent_high - last_bar.close) * 100 > 10 * recent_high
             THEN NoPattern("Too far from high")
        ELSE Pattern("Momentum", pullback_low, recent_high)

detect_pullback_and_new_high(bars) ==
    IF Len(bars) < MIN_BARS_FOR_PATTERN
    THEN NoPattern("Not enough bars")
    ELSE
    LET recent == IF Len(bars) >= PATTERN_LOOKBACK_BARS
                  THEN LastBars(bars, PATTERN_LOOKBACK_BARS) ELSE bars
        L == Len(recent)
        \* lookback_bars of STEP 2
        high_lookback_bars == Min(RECENT_HIGH_LOOKBACK, L - 2)
        recent_segment == Slice(recent, L - high_lookback_bars - 2, L - 2)
        highs == HighsOf(recent_segment)
        recent_high == MaxOf(highs)
        recent_high_idx == L - high_lookback_bars - 2 + IndexOf(highs, recent_high)
        bars_after_high == Slice(recent, recent_high_idx + 1, L - 1)
        pullback_low == MinOf(LowsOf(bars_after_high))
        last_bar == recent[L]
        second_last_bar == recent[L - 1]
    IN  IF L < 8 THEN NoPattern("Insufficient data")
        ELSE IF SurgeLookback(recent) = 0 THEN NoPattern("No surge")
        ELSE IF Len(recent_segment) < 3 THEN NoPattern("Not enough bars for pattern")
        ELSE IF recent_high_idx >= L - 2 THEN NoPattern("High too recent, no pullback yet")
        ELSE IF Len(bars_after_high) = 0 THEN NoPattern("No bars for pullback")
        \* pullback_pct = (recent_high - pullback_low) / recent_high * 100
        ELSE IF (recent_high - pullback_low) * 1000 < MIN_PULLBACK_PCT_X10 * recent_high
             THEN NoPattern("No pullback")
        ELSE IF (recent_high - pullback_low) * 100 > MAX_PULLBACK_PCT * recent_high
             THEN NoPattern("Pullback too deep")
        ELSE IF last_bar.high <= second_last_bar.high
             THEN NoPattern("No breakout - not making higher high")
        ELSE IF last_bar.close <= last_bar.open
             THEN NoPattern("Breakout bar must close green")
        \* distance_from_high > 10.0
        ELSE IF (recent_high - last_bar.close) * 100 > 10 * recent_high
             THEN NoPattern("Too far from high")
        ELSE Pattern("Momentum", pullback_low, recent_high)

\* detect_breakout_pattern that returns the breakout high as the upper
\* reference price.
detect_breakout_pattern_returning_breakout_high(bars) ==
    IF Len(bars) < MIN_BARS_FOR_PATTERN
    THEN NoPattern("Not enough bars")
    ELSE
    LET recent == IF Len(bars) >= PATTERN_LOOKBACK_BARS
                  THEN LastBars(bars, PATTERN_LOOKBACK_BARS) ELSE bars
        L == Len(recent)
        consolidation_end_idx == L - BREAKOUT_MOMENTUM_BARS
        consolidation_start_idx == Max(0, consolidation_end_idx - CONSOLIDATION_LOOKBACK)
        consolidation_bars == Slice(recent, consolidation_start_idx, consolidation_end_idx)
        consolidation_high == MaxOf(HighsOf(consolidation_bars))
        consolidation_low == MinOf(LowsOf(consolidation_bars))
        breakout_bars == LastBars(recent, BREAKOUT_MOMENTUM_BARS)
        breakout_high == MaxOf(HighsOf(breakout_bars))
        last_bar == recent[L]
    IN  IF L < 8 THEN NoPattern("Insufficient data")
        ELSE IF consolidation_end_idx - consolidation_start_idx < MIN_CONSOLIDATION_BARS
             THEN NoPattern("Not enough bars for consolidation")
        ELSE IF Len(consolidation_bars) < MIN_CONSOLIDATION_BARS
             THEN NoPattern("Insufficient consolidation period")
        ELSE IF (consolidation_high - consolidation_low) * 100
                  > MAX_CONSOLIDATION_RANGE_PCT * consolidation_low
             THEN NoPattern("Consolidation too wide")
        ELSE IF breakout_high <= consolidation_high THEN NoPattern("No breakout")
        ELSE IF (breakout_high - consolidation_high) * 1000
                  < MIN_BREAKOUT_PCT_X10 * consolidation_high
             THEN NoPattern("Breakout too weak")
        ELSE IF last_bar.close <= last_bar.open
             THEN NoPattern("Last bar not green (weak momentum)")
        ELSE IF last_bar.high * 1000 < consolidation_high * 1005
             THEN NoPattern("Current bar retreated from breakout")
        ELSE Pattern("Breakout", consolidation_low, breakout_high)

detect_breakout_pattern(bars) ==
    IF Len(bars) < MIN_BARS_FOR_PATTERN
    THEN NoPattern("Not enough bars")
    ELSE
    LET recent == IF Len(bars) >= PATTERN_LOOKBACK_BARS
                  THEN LastBars(bars, PATTERN_LOOKBACK_BARS) ELSE bars
        L == Len(recent)
        consolidation_end_idx == L - BREAKOUT_MOMENTUM_BARS
        consolidation_start_idx == Max(0, consolidation_end_idx - CONSOLIDATION_LOOKBACK)
        consolidation_bars == Slice(recent, consolidation_start_idx, consolidation_end_idx)
        consolidation_high == MaxOf(HighsOf(consolidation_bars))
        consolidation_low == MinOf(LowsOf(consolidation_bars))
        breakout_bars == LastBars(recent, BREAKOUT_MOMENTUM_BARS)
        breakout_high == MaxOf(HighsOf(breakout_bars))
        last_bar == recent[L]
    IN  IF L < 8 THEN NoPattern("Insufficient data")
        ELSE IF consolidation_end_idx - consolidation_start_idx < MIN_CONSOLIDATION_BARS
             THEN NoPattern("Not enough bars for consolidation")
        ELSE IF Len(consolidation_bars) < MIN_CONSOLIDATION_BARS
             THEN NoPattern("Insufficient consolidation period")
        \* consolidation_range_pct > MAX_CONSOLIDATION_RANGE_PCT
        ELSE IF (consolidation_high - consolidation_low) * 100
                  > MAX_CONSOLIDATION_RANGE_PCT * consolidation_low
             THEN NoPattern("Consolidation too wide")
        ELSE IF breakout_high <= consolidation_high THEN NoPattern("No breakout")
        \* breakout_pct < MIN_BREAKOUT_PCT
        ELSE IF (breakout_high - consolidation_high) * 1000
                  < MIN_BREAKOUT_PCT_X10 * consolidation_high
             THEN NoPattern("Breakout too weak")
        ELSE IF last_bar.close <= last_bar.open
             THEN NoPattern("Last bar not green (weak momentum)")
        \* last_bar['high'] < consolidation_high * 1.005
        ELSE IF last_bar.high * 1000 < consolidation_high * 1005
             THEN NoPattern("Current bar retreated from breakout")
        ELSE Pattern("Breakout", consolidation_low, consolidation_high)

check_volume_conditions(bars) ==
    IF Len(bars) < 5
    THEN Failed("Not enough bars for volume analysis")
    ELSE
    LET recent == IF Len(bars) >= VOLUME_LOOKBACK_BARS
                  THEN LastBars(bars, VOLUME_LOOKBACK_BARS) ELSE bars
        L == Len(recent)
        last_bar == recent[L]
        second_last_bar == recent[L - 1]
        history_bars == IF L > 2 THEN Slice(recent, 0, L - 2) ELSE Slice(recent, 0, L - 1)
        \* avg_volume = total / count
        total == SumOf(VolumesOf(history_bars))
        count == Len(history_bars)
        last_2 == last_bar.volume + second_last_bar.volume
        \* relative_volume < MIN_RELATIVE_VOLUME, with relative_volume =
        \* (last_2 / 2) / avg_volume, and 0 when avg_volume is 0
        low_volume == total = 0 \/ last_2 * count * 10 < MIN_RELATIVE_VOLUME_X10 * 2 * total
        upper_wick == last_bar.high - Max(last_bar.open, last_bar.close)
        body_size == IF last_bar.close >= last_bar.open
                     THEN last_bar.close - last_bar.open
                     ELSE last_bar.open - last_bar.close
        five == LastBars(recent, Min(5, L))
        red_candles == Cardinality({ k \in DOMAIN five : five[k].close < five[k].open })
    IN  IF L < 3 THEN Failed("Not enough bars for volume analysis")
        ELSE IF count = 0 THEN Failed("Not enough historical bars for volume analysis")
        ELSE IF low_volume THEN Failed("Low relative volume")
        ELSE IF /\ last_bar.volume * count > VOLUME_SPIKE_THRESHOLD * total
                /\ upper_wick * 10 > body_size * VOLUME_WICK_RATIO_X10
             THEN Failed("Volume top detected")
        ELSE IF red_candles >= MAX_RED_CANDLES_IN_PULLBACK
             THEN Failed("Excessive selling pressure")
        ELSE Passed("Strong volume")

breakout_check_volume_conditions(bars) ==
    IF Len(bars) < 5
    THEN Failed("Not enough bars for volume analysis")
    ELSE
    LET recent == IF Len(bars) >= VOLUME_LOOKBACK_BARS
                  THEN LastBars(bars, VOLUME_LOOKBACK_BARS) ELSE bars
        L == Len(recent)
        last_bar == recent[L]
        history_bars == Slice(recent, 0, L - 1)
        total == SumOf(VolumesOf(history_bars))
        count == Len(history_bars)
    IN  IF L < 3 THEN Failed("Not enough bars for volume analysis")
        ELSE IF count = 0 THEN Failed("Not enough historical bars for volume analysis")
        \* relative_volume = last volume / avg_volume, and 0 when avg_volume is 0
        ELSE IF total = 0 \/ last_bar.volume * count * 10 < Breakout_MIN_RELATIVE_VOLUME_X10 * total
             THEN Failed("Low breakout volume")
        ELSE IF last_bar.volume * count * 10 < BREAKOUT_VOLUME_SPIKE_X10 * total
             THEN Failed("No volume spike")
        ELSE Passed("Strong breakout volume")

\* The same code in both strategy files.
check_above_vwap(bars, current_price) ==
    LET vwap == calculate_vwap(bars)
    IN  IF ~vwap.ok THEN Failed("VWAP calculation failed")
        ELSE IF current_price * vwap.den <= vwap.num THEN Failed("Price below VWAP")
        ELSE Passed("Price above VWAP")

\* A result of a check as an entry {'ok': ..., 'msg': ...} of the results.
Entry(r) == [ok |-> r.ok, msg |-> r.msg]

\* (all_ok, results, pullback_low, recent_high); the exception of a check is
\* not caught: the checks run in the order pattern, MACD, volume, VWAP.
AllEntryConditions(pattern, macd, volume, vwap) ==
    IF pattern.raised THEN Raised(pattern.error)
    ELSE IF macd.raised THEN Raised(macd.error)
    ELSE IF volume.raised THEN Raised(volume.error)
    ELSE IF vwap.raised THEN Raised(vwap.error)
    ELSE [raised |-> FALSE,
          all_ok |-> pattern.ok /\ macd.ok /\ volume.ok /\ vwap.ok,
          results |-> [pattern |-> Entry(pattern), macd |-> Entry(macd),
                       volume |-> Entry(volume), vwap |-> Entry(vwap)],
          low |-> pattern.low, high |-> pattern.high]

check_all_entry_conditions(bars_1m, current_price) ==
    AllEntryConditions(detect_pullback_and_new_high(bars_1m),
                       check_macd_positive(bars_1m),
                       check_volume_conditions(bars_1m),
                       check_above_vwap(bars_1m, current_price))

breakout_check_all_entry_conditions(bars_1m, current_price) ==
    AllEntryConditions(detect_breakout_pattern(bars_1m),
                       breakout_check_macd_positive(bars_1m),
                       breakout_check_volume_conditions(bars_1m),
                       check_above_vwap(bars_1m, current_price))

(***************************************************************************)
(* The stateless functions, each applied once to an input.                 *)
(***************************************************************************)
\* Prices in cents handed to calculate_entry_exit_prices: penny prices, where
\* rounding to the cent matters most, and prices around one dollar.  A
\* reference high of 0 stands for a falsy recent_high.
CurrentPrices == {2, 3, 5, 100, 104, 120}
ReferenceLows == {1, 2, 4, 90, 97, 100, 103}
ReferenceHighs == {0, 2, 5, 100, 105}

PriceArgs ==
    [current_price : CurrentPrices, reference_low : ReferenceLows,
     reference_high : ReferenceHighs]

\* The inputs of the pullback variant and of the breakout variant; an input
\* with a product exactly half way between two cents is left out.
PriceInputs ==
    { [kind |-> "prices", current_price |-> a.current_price,
       reference_low |-> a.reference_low, reference_high |-> a.reference_high] :
        a \in { a \in PriceArgs :
                  /\ ~HalfWay(a.current_price * (1000 + ENTRY_SPREAD_PER_MILLE), 1000)
                  /\ ~HalfWay(a.reference_low * 99, 100)
                  /\ ~HalfWay(a.reference_high * 99, 100) } }

BreakoutPriceInputs ==
    { [kind |-> "breakout_prices", current_price |-> a.current_price,
       reference_low |-> a.reference_low, reference_high |-> a.reference_high] :
        a \in { a \in PriceArgs :
                  /\ ~HalfWay(a.current_price * (1000 + ENTRY_SPREAD_PER_MILLE), 1000)
                  /\ ~HalfWay(a.reference_low * 98, 100)
                  /\ ~HalfWay(RoundDiv(a.current_price * (1000 + ENTRY_SPREAD_PER_MILLE), 1000)
                                * (100 + Breakout_PROFIT_TARGET_PCT_X100), 100) } }

\* Share counts and trade values (mills) handed to calculate_commission: on
\* both sides of the 200 shares at which the per-share rate reaches the
\* minimum fee.
ShareCounts == {1, 96, 100, 199, 200, 201, 250, 5000}
TradeValues == {10, 20, 96000, 100000, 1000000}

CommissionInputs ==
    { [kind |-> "commission", shares |-> n, trade_value |-> v] :
        n \in ShareCounts, v \in TradeValues }

\* Bar lists handed to the checks: the last n bars of a 30-minute history, for
\* the lengths around each check's minimum, with a current price above or
\* below the VWAP.
Bar(o, h, l, c, v) == [open |-> o, high |-> h, low |-> l, close |-> c, volume |-> v]

\* Minutes of history the bar lists are cut from.
HistoryLen == 30

\* A climb of a cent a minute to a high at minute 27, two minutes of pullback,
\* a new high on doubled volume.
PullbackHistory ==
    [k \in 1..HistoryLen |->
       IF k <= 27 THEN Bar(99 + k, 100 + k, 99 + k, 100 + k, 1000)
       ELSE IF k = 28 THEN Bar(127, 127, 125, 125, 1000)
       ELSE IF k = 29 THEN Bar(125, 126, 124, 126, 2000)
       ELSE Bar(126, 129, 126, 129, 2000)]

\* A range of one cent for 27 minutes, then three rising minutes, the last
\* on three times the volume.
BreakoutHistory ==
    [k \in 1..HistoryLen |->
       IF k <= 27 THEN Bar(100, 101, 100, 100 + (k % 2), 1000)
       ELSE IF k = 28 THEN Bar(101, 102, 101, 102, 1000)
       ELSE IF k = 29 THEN Bar(102, 103, 102, 103, 1000)
       ELSE Bar(103, 105, 103, 105, 3000)]

\* A steady climb of a cent a minute: the MACD stays above its signal line
\* while the histogram shrinks.
ClimbingHistory ==
    [k \in 1..HistoryLen |-> Bar(99 + k, 100 + k, 99 + k, 100 + k, 1000)]

\* A steady fall of a cent a minute.
FallingHistory ==
    [k \in 1..HistoryLen |-> Bar(161 - k, 161 - k, 160 - k, 160 - k, 1000)]

\* The range of BreakoutHistory, then a spike to 110 that is given back: the
\* last minute is green with a high of 104.
RetreatHistory ==
    [k \in 1..HistoryLen |->
       IF k <= 27 THEN Bar(100, 101, 100, 100 + (k % 2), 1000)
       ELSE IF k = 28 THEN Bar(101, 110, 101, 109, 1000)
       ELSE IF k = 29 THEN Bar(109, 109, 103, 103, 1000)
       ELSE Bar(102, 104, 102, 103, 3000)]

\* Minutes between 9.80 and 10.00, then three breakout minutes to a high of
\* 10.25, the last from 10.10 to 10.20 on three times the volume; the quote
\* that goes with them is 10.22.
ScenarioHistory ==
    [k \in 1..HistoryLen |->
       IF k <= HistoryLen - 3
       THEN Bar(990, 1000, 980, 985 + 10 * ((HistoryLen - k) % 2), 1000)
       ELSE IF k = HistoryLen - 2 THEN Bar(1000, 1010, 995, 1008, 1000)
       ELSE IF k = HistoryLen - 1 THEN Bar(1008, 1015, 1005, 1010, 1000)
       ELSE Bar(1010, 1025, 1008, 1020, 3000)]

ScenarioPrice == 1022

\* PullbackHistory with a last minute that only reaches the high of the
\* minute before.
StalledHistory ==
    [k \in 1..HistoryLen |->
       IF k < HistoryLen THEN PullbackHistory[k] ELSE Bar(125, 126, 125, 126, 2000)]

Histories == {PullbackHistory, BreakoutHistory, ClimbingHistory, FallingHistory,
              RetreatHistory, StalledHistory}

BarCounts == {0, 1, 2, 4, 5, 7, 8, 9, 10, 11, 12, 25, 26, 27, 28, 30}

BarPrices == {100, 130}

BarsInputs ==
    { [kind |-> "bars", bars |-> LastBars(h, n), current_price |-> p] :
        h \in Histories, n \in BarCounts, p \in BarPrices }
    \cup { [kind |-> "bars", bars |-> LastBars(ScenarioHistory, n),
            current_price |-> ScenarioPrice] : n \in BarCounts }

\* Arguments of calculate_position_size: entry prices in cents from a penny to
\* above the trade size, with account balances (mills) and stop prices.
SizeEntryPrices == {1, 29, 40, 100, 104, 3333, 9999, 10000, 10001, 25000}
SizeBalances == {0, 50000, 500000}
SizeStops == {0, 1, 99, 30000}

SizeInputs ==
    { [kind |-> "size", account_balance |-> b, entry_price |-> e, stop_price |-> t] :
        b \in SizeBalances, e \in SizeEntryPrices, t \in SizeStops }

\* The 1-minute bars of one day as run_backtest holds them: the bars of a
\* history dated a minute apart from the minute `first` of the day.
MinuteDate(m) == [day |-> 1, hour |-> m \div 60, minute |-> m % 60, second |-> 0]

DatedBars(h, first) ==
    [k \in DOMAIN h |->
       [date |-> MinuteDate(first + k - 1), open |-> h[k].open, high |-> h[k].high,
        low |-> h[k].low, close |-> h[k].close, volume |-> h[k].volume]]

\* The minute of the open, 09:30, counted from midnight.
MarketOpenMinute == MARKET_OPEN_HOUR * 60 + MARKET_OPEN_MINUTE

\* (minute of the first bar, minute of the current 10-second bar): a full
\* history since the open; MACD_SLOW bars since the open; one bar fewer; a
\* full history before the open; MIN_BARS_FOR_PATTERN bars since the open with
\* later bars in the list; a history after the close.
MinuteTimelines ==
    { <<MarketOpenMinute, MarketOpenMinute + HistoryLen - 1>>,
      <<MarketOpenMinute + MACD_SLOW - HistoryLen, MarketOpenMinute + MACD_SLOW - 1>>,
      <<MarketOpenMinute + MACD_SLOW - 1 - HistoryLen, MarketOpenMinute + MACD_SLOW - 2>>,
      <<MarketOpenMinute - HistoryLen, MarketOpenMinute - 1>>,
      <<MarketOpenMinute, MarketOpenMinute + MIN_BARS_FOR_PATTERN - 1>>,
      <<MARKET_CLOSE_HOUR * 60 + MARKET_CLOSE_MINUTE + 1,
        MARKET_CLOSE_HOUR * 60 + MARKET_CLOSE_MINUTE + HistoryLen>> }

MinuteInputs ==
    { [kind |-> "minutes", bars_1m_list |-> DatedBars(h[1], t[1]),
       current_time |-> MinuteDate(t[2]), current_price |-> h[2]] :
        h \in {<<ScenarioHistory, ScenarioPrice>>, <<PullbackHistory, 130>>},
        t \in MinuteTimelines }

FnInputs ==
    PriceInputs \cup BreakoutPriceInputs \cup CommissionInputs \cup BarsInputs
      \cup SizeInputs \cup MinuteInputs

FnInit ==
    /\ fn_in \in FnInputs
    /\ fn_out = NoResult
    /\ SimIdle
    /\ LiveIdle

\* The call returns r.
Returns(r) ==
    /\ fn_out = NoResult
    /\ fn_out' = r
    /\ UNCHANGED fn_in
    /\ UNCHANGED simVars
    /\ UNCHANGED liveVars

Call_calculate_entry_exit_prices ==
    /\ fn_in.kind = "prices"
    /\ Returns([fn |-> "calculate_entry_exit_prices",
                plan |-> calculate_entry_exit_prices(fn_in.current_price,
                                                     fn_in.reference_low,
                                                     fn_in.reference_high)])

Call_breakout_calculate_entry_exit_prices ==
    /\ fn_in.kind = "breakout_prices"
    /\ Returns([fn |-> "breakout_calculate_entry_exit_prices",
                plan |-> breakout_calculate_entry_exit_prices(fn_in.current_price,
                                                              fn_in.reference_low,
                                                              fn_in.reference_high)])

\* The buy-side and the sell-side commission of the same order.
Call_calculate_commission ==
    /\ fn_in.kind = "commission"
    /\ Returns([fn |-> "calculate_commission",
                buy |-> calculate_commission(fn_in.shares, fn_in.trade_value, FALSE),
                sell |-> calculate_commission(fn_in.shares, fn_in.trade_value, TRUE)])

\* The checks of RossCameron-Strategy.py.
Call_detect_pullback_and_new_high ==
    /\ fn_in.kind = "bars"
    /\ Returns([fn |-> "detect_pullback_and_new_high",
                result |-> detect_pullback_and_new_high(fn_in.bars)])

Call_check_macd_positive ==
    /\ fn_in.kind = "bars"
    /\ Returns([fn |-> "check_macd_positive",
                result |-> check_macd_positive(fn_in.bars)])

Call_check_volume_conditions ==
    /\ fn_in.kind = "bars"
    /\ Returns([fn |-> "check_volume_conditions",
                result |-> check_volume_conditions(fn_in.bars)])

Call_check_above_vwap ==
    /\ fn_in.kind = "bars"
    /\ Returns([fn |-> "check_above_vwap",
                result |-> check_above_vwap(fn_in.bars, fn_in.current_price)])

Call_check_all_entry_conditions ==
    /\ fn_in.kind = "bars"
    /\ Returns([fn |-> "check_all_entry_conditions",
                result |-> check_all_entry_conditions(fn_in.bars, fn_in.current_price)])

\* The checks of Breakout-Strategy.py.
Call_detect_breakout_pattern ==
    /\ fn_in.kind = "bars"
    /\ Returns([fn |-> "detect_breakout_pattern",
                result |-> detect_breakout_pattern(fn_in.bars)])

Call_breakout_check_macd_positive ==
    /\ fn_in.kind = "bars"
    /\ Returns([fn |-> "breakout_check_macd_positive",
                result |-> breakout_check_macd_positive(fn_in.bars)])

Call_breakout_check_volume_conditions ==
    /\ fn_in.kind = "bars"
    /\ Returns([fn |-> "breakout_check_volume_conditions",
                result |-> breakout_check_volume_conditions(fn_in.bars)])

Call_breakout_check_above_vwap ==
    /\ fn_in.kind = "bars"
    /\ Returns([fn |-> "breakout_check_above_vwap",
                result |-> check_above_vwap(fn_in.bars, fn_in.current_price)])

Call_breakout_check_all_entry_conditions ==
    /\ fn_in.kind = "bars"
    /\ Returns([fn |-> "breakout_check_all_entry_conditions",
                result |-> breakout_check_all_entry_conditions(fn_in.bars,
                                                               fn_in.current_price)])

\* calculate_position_size, the same code in both strategy files.
Call_calculate_position_size ==
    /\ fn_in.kind = "size"
    /\ Returns([fn |-> "calculate_position_size",
                shares |-> calculate_position_size(fn_in.account_balance,
                                                   fn_in.entry_price, fn_in.stop_price)])

Call_breakout_calculate_position_size ==
    /\ fn_in.kind = "size"
    /\ Returns([fn |-> "breakout_calculate_position_size",
                shares |-> calculate_position_size(fn_in.account_balance,
                                                   fn_in.entry_price, fn_in.stop_price)])

\* bars[-n:]
LastAtMost(bars, n) == IF Len(bars) <= n THEN bars ELSE LastBars(bars, n)

\* recent_1m taking the bars up to the current time in regular hours too.
recent_1m_up_to_now(bars_1m_list, current_time) ==
    LET UpToNow(b) == DateLE(b.date, current_time)
    IN  LastAtMost(SelectSeq(bars_1m_list, UpToNow), VWAP_LOOKBACK_BARS)

\* The 1-minute bars run_backtest hands to the entry check: before 09:30 the
\* last bars up to the current time, from 09:30 on the bars of the session.
recent_1m(bars_1m_list, current_time) ==
    LET market_open_time == [current_time EXCEPT !.hour = 9, !.minute = 30, !.second = 0]
        UpToNow(b) == DateLE(b.date, current_time)
        InSession(b) == DateLE(market_open_time, b.date) /\ DateLE(b.date, current_time)
    IN  IF current_time.hour < 9 \/ (current_time.hour = 9 /\ current_time.minute < 30)
        THEN LastAtMost(SelectSeq(bars_1m_list, UpToNow), VWAP_LOOKBACK_BARS)
        ELSE SelectSeq(bars_1m_list, InSession)

\* The entry part of one iteration of run_backtest with no position open and
\* the initial capital: the hours test, the choice of the 1-minute bars and
\* check_entry_conditions on what check_all_entry_conditions returns for them.
run_backtest_entry_check(bars_1m_list, current_time, current_price) ==
    IF ~is_premarket(current_time) /\ ~is_regular_hours(current_time)
    THEN [recent_1m |-> << >>, entry |-> NoEntry]
    ELSE LET bars_1m == recent_1m(bars_1m_list, current_time)
             r == check_all_entry_conditions(bars_1m, current_price)
             sig == [len_1m |-> Len(bars_1m), all_ok |-> r.all_ok,
                     pullback_low |-> r.low, recent_high |-> r.high]
         IN  [recent_1m |-> bars_1m,
              entry |-> check_entry_conditions(sig, current_price,
                                               Money(initial_capital, 0))]

Call_run_backtest_entry_check ==
    /\ fn_in.kind = "minutes"
    /\ LET out == run_backtest_entry_check(fn_in.bars_1m_list, fn_in.current_time,
                                           fn_in.current_price)
       IN  Returns([fn |-> "run_backtest_entry_check",
                    recent_1m |-> out.recent_1m, entry |-> out.entry])

FnNext ==
    \/ Call_calculate_position_size
    \/ Call_breakout_calculate_position_size
    \/ Call_calculate_entry_exit_prices
    \/ Call_breakout_calculate_entry_exit_prices
    \/ Call_calculate_commission
    \/ Call_detect_pullback_and_new_high
    \/ Call_check_macd_positive
    \/ Call_check_volume_conditions
    \/ Call_check_above_vwap
    \/ Call_check_all_entry_conditions
    \/ Call_detect_breakout_pattern
    \/ Call_breakout_check_macd_positive
    \/ Call_breakout_check_volume_conditions
    \/ Call_breakout_check_above_vwap
    \/ Call_breakout_check_all_entry_conditions
    \/ Call_run_backtest_entry_check

SpecFn == FnInit /\ [][FnNext]_vars

(***************************************************************************)
(* Further properties of the simulation.                                   *)
(***************************************************************************)
\* Minutes since midnight of a timestamp.
MinuteOfDay(dt) == dt.hour * 60 + dt.minute

\* The step processed the next bar of the input.
BarStep == pc = "loop" /\ i' = i + 1

\* C12: a bar processed with a position open closes it when it hits the
\* stop, the target or the 15:50 cutoff, also when the bar lies outside
\* pre-market and regular hours; and a position that replaces the open one in
\* the same step was entered after the exit was recorded.
C12_ExitBeforeEntryAnyHour ==
    [][(BarStep /\ position # None) =>
        /\ (current_bar'.low <= position.stop_price
              => ClosedBy("STOP LOSS", position.stop_price))
        /\ (current_bar'.low > position.stop_price
            /\ current_bar'.high >= position.profit_price
              => ClosedBy("PROFIT TARGET", position.profit_price))
        /\ (current_bar'.low > position.stop_price
            /\ current_bar'.high < position.profit_price
            /\ MinuteOfDay(current_bar'.date) >= 15 * 60 + 50
              => \E r \in {"END OF DAY", "DYNAMIC EXIT"} : ClosedBy(r, current_bar'.close))
        /\ (position' # position => Len(trades') = Len(trades) + 1)]_vars

\* The last bar lay before 05:00, outside pre-market and regular hours, and
\* closed at its stop a position held since the day before.
C12_Witness ==
    /\ pc = "loop"
    /\ Len(trades) >= 1
    /\ ~InTradingHours(current_bar.date)
    /\ MinuteOfDay(current_bar.date) < 5 * 60
    /\ trades[Len(trades)].exit_time = current_bar.date
    /\ trades[Len(trades)].exit_reason = "STOP LOSS"
    /\ trades[Len(trades)].entry_time.day < current_bar.date.day

\* The ledger holds one record per entry: entry times are pairwise distinct
\* and differ from the open position's.
OneRecordPerEntry ==
    /\ \A j, k \in 1..Len(trades) : j # k => trades[j].entry_time # trades[k].entry_time
    /\ position # None => \A k \in 1..Len(trades) : trades[k].entry_time # position.entry_time

\* C13: after the loop no position is open; the step that ends the run with
\* a position open records it in the ledger at the final bar's close and time
\* with reason END OF BACKTEST; a position leaves the slot only with a ledger
\* record, the ledger only grows by the record of the open position, and no
\* entry has two records.
C13_ClosedAtEnd ==
    /\ [](pc = "done" => position = None)
    /\ []OneRecordPerEntry
    /\ [][(pc = "loop" /\ pc' = "done" /\ position # None)
            => /\ ClosedBy("END OF BACKTEST", current_bar.close)
               /\ trades'[Len(trades')].exit_time = current_bar.date]_vars
    /\ [][(position # None /\ position' # position)
            => ClosedBy(trades'[Len(trades')].exit_reason,
                        trades'[Len(trades')].exit_price)]_vars
    /\ [][trades' # trades
            => /\ position # None
               /\ trades' = Append(trades, trades'[Len(trades')])
               /\ trades'[Len(trades')].entry_time = position.entry_time
               /\ trades'[Len(trades')].shares = position.shares
               /\ trades'[Len(trades')].entry_price = position.entry_price]_vars

\* The run ended by closing the position that was still open, after an
\* earlier trade had been closed by a bar.
C13_Witness ==
    /\ pc = "done"
    /\ Len(trades) >= 2
    /\ trades[Len(trades)].exit_reason = "END OF BACKTEST"
    /\ trades[Len(trades)].exit_time = current_bar.date
    /\ trades[Len(trades)].exit_price = current_bar.close

\* C19: every trade of the ledger carries as commission the buy-leg plus the
\* sell-leg commission, each max(shares x per-share rate, minimum fee), with
\* the SEC fee on the sale proceeds only, and as net P&L
\* (exit_price - entry_price) x shares minus that commission.
C19_LedgerCommission ==
    \A n \in 1..Len(trades) :
      LET t == trades[n]
          leg == IF t.shares * COMMISSION_PER_SHARE_MILLS > COMMISSION_MINIMUM_MILLS
                 THEN t.shares * COMMISSION_PER_SHARE_MILLS
                 ELSE COMMISSION_MINIMUM_MILLS
          proceeds == t.exit_price * t.shares * 10
          gross == (t.exit_price - t.entry_price) * t.shares * 10
      IN  /\ t.commission = Money(leg + leg, proceeds)
          /\ t.pnl = Money(gross - (leg + leg), 0 - proceeds)

\* The ledger holds a trade of more than 200 shares, charged by the share on
\* both legs, and one charged the minimum fee.
C19_Witness ==
    /\ \E n \in 1..Len(trades) :
         /\ trades[n].shares > 200
         /\ trades[n].commission.mills = 2 * trades[n].shares * COMMISSION_PER_SHARE_MILLS
         /\ trades[n].commission.sec > 0
    /\ \E n \in 1..Len(trades) :
         trades[n].commission.mills = 2 * COMMISSION_MINIMUM_MILLS

\* An approved signal whose trade plan calculate_entry_exit_prices rejects at
\* the given price: stop at or above entry, or stop distance under 2%.
PlanRejected(sig, price) ==
    /\ sig.len_1m >= MIN_BARS_FOR_PATTERN /\ sig.all_ok
    /\ ~calculate_entry_exit_prices(price, sig.pullback_low, sig.recent_high).ok

\* An approved signal with a valid plan whose cost exceeds the capital.
CashShort(sig, price, cap) ==
    /\ sig.len_1m >= MIN_BARS_FOR_PATTERN /\ sig.all_ok
    /\ LET prices == calculate_entry_exit_prices(price, sig.pullback_low, sig.recent_high)
       IN  /\ prices.ok
           /\ MoneyGT(Money(prices.entry_price
                              * calculate_position_size(cap, prices.entry_price,
                                                        prices.stop_price) * 10, 0),
                      cap)

\* C27: on every bar the loop processes in trading hours with no position
\* open and no halt, the loop body run with an approved signal whose plan is
\* rejected, or whose cost exceeds the capital, leaves position, capital,
\* ledger and halt flag as they were.
C27_RejectedPlanChangesNothing ==
    [][(BarStep /\ position = None /\ ~trading_halted_today
        /\ InTradingHours(current_bar'.date)) =>
         \A sig \in EntrySignals :
            (PlanRejected(sig, current_bar'.close)
             \/ CashShort(sig, current_bar'.close, capital))
            => loop_body(Engine(position, trades, capital, trading_halted_today),
                         current_bar, current_bar', sig, i + 1)
               = Engine(None, trades, capital, FALSE)]_vars

\* The last bar, in trading hours, closed above what the account holds: an
\* approved signal with a valid plan was short of cash, and there is no
\* position and no halt.
C27_Witness ==
    /\ pc = "loop"
    /\ i >= lookback_bars
    /\ InTradingHours(current_bar.date)
    /\ position = None
    /\ ~trading_halted_today
    /\ \E sig \in EntrySignals : CashShort(sig, current_bar.close, capital)

\* C22: on every bar processed with an open position that hits neither the
\* stop nor the target, the simulation closes the position as DYNAMIC EXIT
\* exactly when the live loop's test of the same 10-second bars,
\* check_dynamic_exit on the bars up to this one, asks for the exit.
C22_SameDynamicExitDecision ==
    [][(/\ pc = "loop" /\ i' = i + 1
        /\ position # None
        /\ current_bar'.low > position.stop_price
        /\ current_bar'.high < position.profit_price)
       => (ClosedBy("DYNAMIC EXIT", current_bar'.close)
             <=> check_dynamic_exit(<<current_bar, current_bar'>>))]_simVars

\* C14: a step that opens a position processed a bar of index 360 or more
\* whose time of day lies in 05:00..09:29 or 09:30..15:50, and the position
\* carries that bar's index and time.
C14_EntryOnlyInSession ==
    [][(position' # None /\ position' # position) =>
        /\ BarStep
        /\ i' >= 360
        /\ position'.entry_bar_idx = i'
        /\ position'.entry_time = current_bar'.date
        /\ LET m == MinuteOfDay(current_bar'.date)
           IN  \/ 5 * 60 <= m /\ m <= 9 * 60 + 29
               \/ 9 * 60 + 30 <= m /\ m <= 15 * 60 + 50]_vars

\* A position was opened in the last minute of regular hours, on a bar after
\* the first, with no trade closed before.
C14_Witness ==
    /\ pc = "loop"
    /\ position # None
    /\ position.entry_bar_idx = i
    /\ i > lookback_bars
    /\ MinuteOfDay(position.entry_time) = 15 * 60 + 50
    /\ trades = << >>

\* C36: no position is opened on a bar timestamped at or after the
\* end-of-day cutoff: the open position was not entered at or after 15:50.
C36_NoEntryAtOrAfterCutoff ==
    position # None => ~check_end_of_day(position.entry_time)

\* C37: the cash balance is never negative.
C37_CashNeverNegative == ~MoneyGT(Money(0, 0), capital)

\* The sum of the net P&L of the first n trades of a ledger.
RECURSIVE NetPnlOf(_, _)
NetPnlOf(tr, n) ==
    IF n = 0 THEN Money(0, 0) ELSE MoneyAdd(NetPnlOf(tr, n - 1), tr[n].pnl)

\* Two amounts of money of the same value.
MoneyEQ(a, b) == ~MoneyGT(a, b) /\ ~MoneyGT(b, a)

\* C38: whenever no position is open, the cash balance equals the initial
\* capital plus the sum of the net P&L of every trade in the ledger.
C38_CashIsInitialPlusNetPnl ==
    position = None =>
        MoneyEQ(capital, MoneyAdd(Money(initial_capital, 0), NetPnlOf(trades, Len(trades))))

\* Flat after two round trips, one of them at a loss and one at a profit.
C38_Witness ==
    /\ position = None
    /\ Len(trades) = 2
    /\ \E k \in 1..2 : MoneyGT(Money(0, 0), trades[k].pnl)
    /\ \E k \in 1..2 : MoneyGT(trades[k].pnl, Money(0, 0))

\* A ledger whose trades each end no earlier than they begin and begin no
\* earlier than the trade before them ended.
Chronological(tr) ==
    \A k \in 1..Len(tr) :
        /\ DateLE(tr[k].entry_time, tr[k].exit_time)
        /\ k > 1 => DateLE(tr[k - 1].exit_time, tr[k].entry_time)

\* A step that leaves the ledger alone or adds trades at its end.
OnlyAppended ==
    /\ Len(trades') >= Len(trades)
    /\ SubSeq(trades', 1, Len(trades)) = trades

\* C39: the ledger is chronological and non-overlapping, and trades are only
\* ever appended to it.
C39_LedgerChronological == [](Chronological(trades)) /\ [][OnlyAppended]_vars

\* Two trades in the ledger, the second entered on the bar that closed the first.
C39_Witness ==
    /\ Len(trades) = 2
    /\ trades[2].entry_time = trades[1].exit_time
    /\ DateLT(trades[1].entry_time, trades[1].exit_time)

(***************************************************************************)
(* Properties of the live algorithm.                                       *)
(***************************************************************************)
\* The step is the loop's pass over a symbol in the given block.
LoopStep(block) ==
    /\ loop_pc.block = block
    /\ <<loop_pc'.block, loop_pc'.k>> # <<loop_pc.block, loop_pc.k>>

\* The step submits order id.
Submits(id) == orders[id].status = "None" /\ orders'[id].status # "None"

\* Order id was submitted as an entry for symbol s.
IsEntry(id, s) ==
    orders[id].status # "None" /\ orders[id].kind = "entry" /\ orders[id].sym = s

\* C3: a scan of a symbol whose entry order is still working more than 300
\* seconds after its submission requests the cancellation of that order and
\* returns the symbol to idle: pending_entry false, entry order id and stored
\* stop and target prices removed.
C3_StalePendingCancelled ==
    [][\A s \in Symbols :
         ( /\ LoopStep("trade")
           /\ symbols[loop_pc.k] = s
           /\ app.pending_entry[s]
           /\ app.pending_entry_time[s] # Absent
           /\ time_time(now) - app.pending_entry_time[s] > 300
           /\ app.entry_order_id[s] \in OrderIds
           /\ orders[app.entry_order_id[s]].status = "Working" )
         => ( /\ ~app'.pending_entry[s]
              /\ app'.entry_order_id[s] = Absent
              /\ app'.stop_price[s] = Absent
              /\ app'.profit_target_price[s] = Absent
              /\ orders'[app.entry_order_id[s]].cancel_requested )]_vars

\* C6: no step submits an entry order for a symbol while an earlier entry
\* order of that symbol is still working, or while shares bought by an
\* earlier entry are still held.
C6_NoEntryWhileOutstanding ==
    [][\A id \in OrderIds :
         (Submits(id) /\ orders'[id].kind = "entry")
         => ( /\ ~ \E e \in OrderIds : IsEntry(e, orders'[id].sym)
                                       /\ orders[e].status = "Working"
              /\ ~ (broker_position[orders'[id].sym] > 0) )]_vars

\* C7: every stop or target order in the book carries a non-empty OCA tag
\* and the book holds the other order of its pair with the same tag.
C7_SharedOcaTag ==
    \A id \in OrderIds :
      (orders[id].status # "None" /\ orders[id].kind \in {"stop", "target"})
      => /\ orders[id].ocaGroup # NoTag
         /\ \E j \in OrderIds \ {id} :
              /\ orders[j].status # "None"
              /\ orders[j].kind \in {"stop", "target"} \ {orders[id].kind}
              /\ orders[j].sym = orders[id].sym
              /\ orders[j].ocaGroup = orders[id].ocaGroup

\* C8: in regular hours no step submits a dynamic-exit order for a symbol
\* when the orderStatus callback has already received Filled for the stop or
\* the target the object tracks for that symbol.
C8_NoDynamicExitAfterFill ==
    [][\A id \in OrderIds :
         (Submits(id) /\ orders'[id].kind = "dynamic_exit" /\ is_regular_hours(now))
         => ~ \E p \in OrderIds :
                /\ p \in {app.stop_order_id[orders'[id].sym],
                          app.profit_order_id[orders'[id].sym]}
                /\ orders[p].status # "None"
                /\ orders[p].reported = "Filled"]_vars

\* The latest entry order of s was filled in today's pre-market, the callback
\* has reported the fill, the object tracks the position and the shares are
\* still held.
HeldFromPremarket(s, e) ==
    /\ IsEntry(e, s)
    /\ \A j \in OrderIds : IsEntry(j, s) => j <= e
    /\ orders[e].status = "Filled"
    /\ orders[e].reported = "Filled"
    /\ orders[e].fill_session.day = now.day
    /\ is_premarket(orders[e].fill_session)
    /\ app.in_position[s]
    /\ broker_position[s] > 0

\* C9: when a cycle that ran in regular hours ends its monitoring of a symbol
\* whose pre-market position is still held, exactly one stop order and one
\* target order have been submitted for that position.
C9_ProtectedAtOpen ==
    [][\A s \in Symbols, e \in OrderIds :
         ( /\ LoopStep("monitor")
           /\ symbols[loop_pc.k] = s
           /\ loop_pc.current_time = now
           /\ is_regular_hours(now)
           /\ HeldFromPremarket(s, e) )
         => ( /\ Cardinality({ p \in OrderIds : p > e /\ orders'[p].status # "None"
                                 /\ orders'[p].kind = "stop" /\ orders'[p].sym = s }) = 1
              /\ Cardinality({ p \in OrderIds : p > e /\ orders'[p].status # "None"
                                 /\ orders'[p].kind = "target" /\ orders'[p].sym = s }) = 1 )]_vars

\* C10: in_position of a symbol turns false only in the step that delivers an
\* execution message of a sale, and only when no shares are held any more.
C10_ClearedOnlyOnExitFill ==
    [][\A s \in Symbols :
         (app.in_position[s] /\ ~app'.in_position[s])
         => ( /\ callbacks # << >>
              /\ Head(callbacks).type = "execDetails"
              /\ callbacks' = Tail(callbacks)
              /\ ~ (broker_position[s] > 0) )]_vars

\* C11: a step taken while the clock reads pre-market submits no stop order
\* and no target order, and when it submits an entry order it submits nothing
\* else; every step that submits a stop or a target order reads regular hours.
C11_NoProtectiveInPremarket ==
    [][\A id \in OrderIds :
         Submits(id) =>
           /\ is_premarket(now) =>
                 /\ orders'[id].orderType # "STP"
                 /\ orders'[id].kind \notin {"stop", "target"}
                 /\ orders'[id].kind = "entry" =>
                       \A j \in OrderIds \ {id} : ~Submits(j)
           /\ orders'[id].kind \in {"stop", "target"} => is_regular_hours(now)]_vars

\* An entry order submitted in pre-market was filled and the position is held,
\* still in that pre-market, with no other order of the symbol in the book.
C11_Witness ==
    \E e \in OrderIds :
      /\ IsEntry(e, orders[e].sym)
      /\ is_premarket(orders[e].session)
      /\ orders[e].status = "Filled"
      /\ app.in_position[orders[e].sym]
      /\ is_premarket(now)
      /\ now.day = orders[e].session.day
      /\ \A j \in OrderIds \ {e} : j > e => orders[j].status = "None"

\* The orders with which the loop closes a position itself: the near-close
\* order, the pre-market stop and target orders, the dynamic exit order.
ClosingKinds == {"close", "premarket_stop", "premarket_target", "dynamic_exit"}

\* C23: a closing order that the loop submits is a sell of the tracked
\* position size; when the clock reads pre-market it is a limit order at a
\* bid that was quoted, and otherwise the clock reads regular hours or the
\* end-of-day cutoff and it is a market order.
C23_ClosingOrderType ==
    [][\A id \in OrderIds :
         (Submits(id) /\ orders'[id].kind \in ClosingKinds) =>
           /\ orders'[id].action = "SELL"
           /\ orders'[id].totalQuantity = app.position[orders'[id].sym]
           /\ IF is_premarket(now)
              THEN /\ orders'[id].orderType = "LMT"
                   /\ orders'[id].price \in (Bids \cup {100}) \ {0}
              ELSE /\ is_regular_hours(now) \/ check_end_of_day(now)
                   /\ orders'[id].orderType = "MKT"]_vars

\* The book holds a closing limit order submitted in pre-market and a closing
\* market order.
C23_Witness ==
    /\ \E id \in OrderIds :
         /\ orders[id].status # "None"
         /\ orders[id].kind \in ClosingKinds
         /\ orders[id].orderType = "LMT"
         /\ is_premarket(orders[id].session)
         /\ orders[id].totalQuantity > 0
    /\ \E id \in OrderIds :
         /\ orders[id].status # "None"
         /\ orders[id].kind \in ClosingKinds
         /\ orders[id].orderType = "MKT"
         /\ orders[id].totalQuantity > 0

\* The stop and target orders of a symbol that are working at the broker.
WorkingProtective(s) ==
    { id \in OrderIds : /\ orders[id].status = "Working"
                        /\ orders[id].sym = s
                        /\ orders[id].kind \in {"stop", "target"} }

\* The entry orders of a symbol that are working at the broker.
WorkingEntries(s) ==
    { id \in OrderIds : IsEntry(id, s) /\ orders[id].status = "Working" }

\* C24: a pass that starts at or after the end-of-day cutoff is the
\* near-close pass; its step for a symbol tracked as in position requests the
\* cancellation of the symbol's working stop and target orders and submits a
\* market sell of the tracked quantity; its step for a symbol with a pending
\* entry requests the cancellation of the working entry order; and no step
\* taken at or after the cutoff submits an entry order.
C24_EndOfDayFlatten ==
    [][/\ (loop_pc.block = "top" /\ loop_pc'.block # "top" /\ check_end_of_day(now))
          => loop_pc'.block = "close"
       /\ (loop_pc.block = "close" /\ loop_pc' # loop_pc) =>
             LET s == symbols[loop_pc.k]
             IN  /\ check_end_of_day(now)
                 /\ app.in_position[s] =>
                       /\ \A id \in WorkingProtective(s) : orders'[id].cancel_requested
                       /\ \E id \in OrderIds :
                             /\ Submits(id)
                             /\ orders'[id].sym = s
                             /\ orders'[id].action = "SELL"
                             /\ orders'[id].orderType = "MKT"
                             /\ orders'[id].totalQuantity = app.position[s]
                 /\ app.pending_entry[s] =>
                       \A id \in WorkingEntries(s) : orders'[id].cancel_requested
       /\ \A id \in OrderIds :
             (Submits(id) /\ orders'[id].kind = "entry") => ~check_end_of_day(now)]_vars

\* The scans in which a bar request or the quote request came back empty.
MissingData == { inp \in TradeInputs : ~inp.data_ok }

ClosesAtBid(w, s, inp, kind) ==
    \E id \in OrderIds :
       /\ orders[id].status = "None"
       /\ w.orders[id].status # "None"
       /\ w.orders[id].kind = kind
       /\ w.orders[id].sym = s
       /\ w.orders[id].action = "SELL"
       /\ w.orders[id].orderType = "LMT"
       /\ w.orders[id].price = inp.bid
       /\ w.orders[id].totalQuantity = app.position[s]

\* C26: in every monitoring step taken in pre-market for a symbol that holds
\* a position filled in pre-market, whatever the bar request returned, a bid
\* at or below the stored stop makes the step submit the closing limit sell
\* as a stop exit, and a bid above the stop and at or above the stored target
\* makes it submit the closing limit sell as a target exit.
C26_PremarketStopEveryCycle ==
    [][(/\ loop_pc.block = "monitor" /\ loop_pc' # loop_pc /\ now' = now
        /\ is_premarket(now)
        /\ app.in_position[symbols[loop_pc.k]]
        /\ app.premarket_entry[symbols[loop_pc.k]]
        /\ app.oid < MaxOrders)
       => \A inp \in MonitorInputs :
            LET s == symbols[loop_pc.k]
                w == monitor_symbol(World(app, orders), s, inp, now)
            IN  /\ (inp.bid # 0 /\ inp.bid <= app.stop_price[s])
                      => ClosesAtBid(w, s, inp, "premarket_stop")
                /\ (inp.bid # 0 /\ inp.bid > app.stop_price[s]
                                /\ inp.bid >= app.profit_target_price[s])
                      => ClosesAtBid(w, s, inp, "premarket_target")]_vars

\* The stop and target orders recorded for the symbol's position that are
\* working at the broker.
TrackedProtective(s) ==
    { id \in {app.stop_order_id[s], app.profit_order_id[s]} \ {Absent} :
        id \in OrderIds /\ orders[id].status = "Working" }

\* C32: in regular hours the market sell of a dynamic exit carries a
\* non-empty OCA group tag, the tag of the stop and target orders working for
\* the position, however those orders were created.
C32_DynamicExitSharesOcaTag ==
    [][\A id \in OrderIds :
         (/\ Submits(id)
          /\ orders'[id].kind = "dynamic_exit"
          /\ ~is_premarket(now))
         => /\ orders'[id].ocaGroup # NoTag
            /\ \A p \in TrackedProtective(orders'[id].sym) :
                  orders[p].ocaGroup = orders'[id].ocaGroup]_vars

\* C33: the broker's position in a symbol is never below zero: the shares
\* the algorithm's sell orders sold never exceed the shares its buy orders
\* bought.
C33_NeverShort == \A s \in Symbols : broker_position[s] >= 0

\* The step ends the pending entry of symbol s without a fill: the entry
\* order was cancelled by the near-close pass, by the staleness check or by
\* a Cancelled status from the broker.
PendingEntryCancelled(s) ==
    app.pending_entry[s] /\ ~app'.pending_entry[s] /\ ~app'.in_position[s]

\* C34: when a pending entry order is cancelled, no stop or target order of
\* the symbol is left working at the broker without a cancel request, and no
\* stop or target order id is left recorded for the symbol.
C34_CancelledEntryLeavesNoBracket ==
    [][\A s \in Symbols :
         PendingEntryCancelled(s) =>
           /\ \A id \in OrderIds :
                 (/\ orders'[id].status = "Working"
                  /\ orders'[id].sym = s
                  /\ orders'[id].kind \in {"stop", "target"})
                 => orders'[id].cancel_requested
           /\ app'.stop_order_id[s] = Absent
           /\ app'.profit_order_id[s] = Absent]_vars

\* The step submits a sell order of symbol s for qty shares.
SubmitsSell(s, qty) ==
    \E id \in OrderIds :
       /\ Submits(id)
       /\ orders'[id].sym = s
       /\ orders'[id].action = "SELL"
       /\ orders'[id].totalQuantity = qty

\* C35: a monitoring pass that clears a symbol's in-position tracking on a
\* dynamic-exit signal submits, in the same pass, a sell order for the whole
\* tracked quantity.
C35_ClearedOnlyWithSell ==
    [][\A s \in Symbols :
         (/\ LoopStep("monitor")
          /\ s = symbols[loop_pc.k]
          /\ app.in_position[s]
          /\ ~app'.in_position[s])
         => SubmitsSell(s, app.position[s])]_vars

(***************************************************************************)
(* Properties of the stateless functions.                                  *)
(***************************************************************************)
\* C15: every trade plan that calculate_entry_exit_prices returns, in either
\* variant, has its stop below the entry by at least 2% of the entry and its
\* target above the entry.
C15_TradePlanInvariant ==
    (/\ fn_out.fn \in {"calculate_entry_exit_prices",
                        "breakout_calculate_entry_exit_prices"}
     /\ fn_out.plan.ok)
    => /\ fn_out.plan.stop_price < fn_out.plan.entry_price
       /\ (fn_out.plan.entry_price - fn_out.plan.stop_price) * 100
            >= 2 * fn_out.plan.entry_price
       /\ fn_out.plan.profit_price > fn_out.plan.entry_price

\* The check functions of the two variants, and the number of bars below
\* which a check has too little to work on: the pattern checks need
\* MIN_BARS_FOR_PATTERN bars, the MACD needs MACD_SLOW closes and the
\* comparison with the previous bar's histogram one more, the volume check
\* five bars and the VWAP two.
CheckFunctions ==
    {"detect_pullback_and_new_high", "check_macd_positive", "check_volume_conditions",
     "check_above_vwap", "detect_breakout_pattern", "breakout_check_macd_positive",
     "breakout_check_volume_conditions", "breakout_check_above_vwap"}

BarsNeeded(fn) ==
    IF fn \in {"detect_pullback_and_new_high", "detect_breakout_pattern"}
    THEN MIN_BARS_FOR_PATTERN
    ELSE IF fn = "check_macd_positive" THEN MACD_SLOW
    ELSE IF fn = "breakout_check_macd_positive" THEN MACD_SLOW + 1
    ELSE IF fn \in {"check_volume_conditions", "breakout_check_volume_conditions"} THEN 5
    ELSE 2

\* C16: a check function of either variant, given fewer bars than it needs
\* (none at all, or one bar short of the MACD comparison with the previous
\* bar), returns false with a message and raises no exception.
C16_ShortSequenceFailsClosed ==
    (fn_out.fn \in CheckFunctions /\ Len(fn_in.bars) < BarsNeeded(fn_out.fn))
    => /\ ~fn_out.result.raised
       /\ ~fn_out.result.ok
       /\ fn_out.result.msg # ""

AllCheckFunctions == {"check_all_entry_conditions", "breakout_check_all_entry_conditions"}

\* C17: check_all_entry_conditions of either variant returns (approved,
\* per-condition results, reference low, reference high) for every bar list
\* and current price, and never raises.
C17_CheckAllNeverRaises ==
    fn_out.fn \in AllCheckFunctions
    => /\ ~fn_out.result.raised
       /\ fn_out.result.all_ok \in BOOLEAN
       /\ fn_out.result.low \in Nat
       /\ fn_out.result.high \in Nat

\* The four checks of the variant whose check_all_entry_conditions returned,
\* applied to the same arguments.
FourChecks ==
    IF fn_out.fn = "check_all_entry_conditions"
    THEN [pattern |-> detect_pullback_and_new_high(fn_in.bars),
          macd |-> check_macd_positive(fn_in.bars),
          volume |-> check_volume_conditions(fn_in.bars),
          vwap |-> check_above_vwap(fn_in.bars, fn_in.current_price)]
    ELSE [pattern |-> detect_breakout_pattern(fn_in.bars),
          macd |-> breakout_check_macd_positive(fn_in.bars),
          volume |-> breakout_check_volume_conditions(fn_in.bars),
          vwap |-> check_above_vwap(fn_in.bars, fn_in.current_price)]

ConditionKeys == {"pattern", "macd", "volume", "vwap"}

\* C18: check_all_entry_conditions reports the pass/fail result and the
\* message of each of the four checks, whichever of them failed, and approves
\* exactly when all four passed.
C18_ApprovesIffAllFour ==
    fn_out.fn \in AllCheckFunctions
    => /\ ~fn_out.result.raised
       /\ DOMAIN fn_out.result.results = ConditionKeys
       /\ \A key \in ConditionKeys :
             /\ fn_out.result.results[key].ok = FourChecks[key].ok
             /\ fn_out.result.results[key].msg = FourChecks[key].msg
             /\ fn_out.result.results[key].msg # ""
       /\ fn_out.result.all_ok <=> \A key \in ConditionKeys : FourChecks[key].ok

MoneyGE(a, b) == ~MoneyGT(b, a)

\* C20: for a share count of 1 or more the buy-side and the sell-side
\* commission are at least the minimum fee, and for a positive trade value
\* the sell-side commission is greater than the buy-side one.
C20_CommissionBounds ==
    (fn_out.fn = "calculate_commission" /\ fn_in.shares >= 1)
    => /\ MoneyGE(fn_out.buy, Money(COMMISSION_MINIMUM_MILLS, 0))
       /\ MoneyGE(fn_out.sell, Money(COMMISSION_MINIMUM_MILLS, 0))
       /\ fn_in.trade_value > 0 => MoneyGT(fn_out.sell, fn_out.buy)

\* The commission of an order above 200 shares, where the per-share rate
\* exceeds the minimum, on the smallest trade value.
C20_Witness ==
    /\ fn_out.fn = "calculate_commission"
    /\ fn_in.shares > 200
    /\ fn_in.trade_value = 10
    /\ fn_out.buy.mills > COMMISSION_MINIMUM_MILLS

\* The highest high among the most recent breakout bars of a bar list.
BreakoutExtreme(bars) == MaxOf(HighsOf(LastBars(bars, BREAKOUT_MOMENTUM_BARS)))

\* C28: when detect_breakout_pattern reports a match, the final bar closes
\* above its open and its high is no more than 0.5% below the highest high of
\* the breakout bars.
C28_MatchNearBreakoutExtreme ==
    (fn_out.fn = "detect_breakout_pattern" /\ ~fn_out.result.raised /\ fn_out.result.ok)
    => LET bars == fn_in.bars
           last_bar == bars[Len(bars)]
       IN  /\ last_bar.close > last_bar.open
           /\ last_bar.high * 1000 >= BreakoutExtreme(bars) * 995

\* The input is the last n minutes of the worked example with its quote.
ScenarioCall(n) ==
    /\ fn_in.kind = "bars"
    /\ fn_in.bars = LastBars(ScenarioHistory, n)
    /\ fn_in.current_price = ScenarioPrice

RecentBars(bars) ==
    IF Len(bars) >= PATTERN_LOOKBACK_BARS THEN LastBars(bars, PATTERN_LOOKBACK_BARS)
    ELSE bars

\* The local high: the highest high of the up to RECENT_HIGH_LOOKBACK bars
\* before the last two, with the position of its first occurrence.
LocalHighIdx(recent) ==
    LET L == Len(recent)
        n == Min(RECENT_HIGH_LOOKBACK, L - 2)
        highs == HighsOf(Slice(recent, L - n - 2, L - 2))
    IN  L - n - 2 + IndexOf(highs, MaxOf(highs))

LocalHigh(recent) == recent[LocalHighIdx(recent) + 1].high

\* The pullback low: the lowest low after the local high, the last bar left
\* out.
PullbackLow(recent) ==
    MinOf(LowsOf(Slice(recent, LocalHighIdx(recent) + 1, Len(recent) - 1)))

StopBufferPct(fn) == IF fn = "calculate_entry_exit_prices" THEN 1 ELSE 2

\* The entry price exceeds reference_high by more than 10%.
StrongBreakout(entry_price, reference_high) ==
    (entry_price - reference_high) * 100 > 10 * reference_high

\* C31: in either variant the stop of a returned plan is reference_high less
\* the buffer exactly when the entry price exceeds reference_high by more than
\* 10%, and reference_low less the buffer otherwise.
C31_StopReference ==
    (/\ fn_out.fn \in {"calculate_entry_exit_prices",
                        "breakout_calculate_entry_exit_prices"}
     /\ fn_out.plan.ok
     /\ fn_in.reference_high # 0)
    => LET pct == StopBufferPct(fn_out.fn)
       IN  fn_out.plan.stop_price
             = IF StrongBreakout(fn_out.plan.entry_price, fn_in.reference_high)
               THEN RoundDiv(fn_in.reference_high * (100 - pct), 100)
               ELSE RoundDiv(fn_in.reference_low * (100 - pct), 100)

\* The 1-minute bars of the list dated from 09:30 of the day up to the
\* current time.
SessionBarsAvailable(bars_1m_list, current_time) ==
    { k \in DOMAIN bars_1m_list :
        /\ bars_1m_list[k].date.day = current_time.day
        /\ bars_1m_list[k].date.hour * 60 + bars_1m_list[k].date.minute >= MarketOpenMinute
        /\ DateLE(bars_1m_list[k].date, current_time) }

====
